---------------------------- MODULE Spec2Model ----------------------------
(***************************************************************************)
(* A model of the Atto core: the arity-table prepass and recursive-descent *)
(* parser (src/src/parse/parse.rs) and the tree-walking evaluator with its *)
(* value operations and universe counter (src/src/exec/ast.rs).            *)
(*                                                                         *)
(* Data is encoded as records tagged by a string field:                    *)
(*   lexemes  [k |-> "Ident", name, scalar, arity], [k |-> "Def"], ...     *)
(*   exprs    [e |-> "Call", name, cargs], [e |-> "If", p, te, fe], ...    *)
(*   values   [t |-> "List", offset, buf], [t |-> "Universe", n], ...      *)
(* Strings of the program are sequences of one-character strings.          *)
(* Option<T> is <<>> (None) or <<x>> (Some(x)).  HashMap<&str, V> is a     *)
(* sequence of <<key, value>> pairs with at most one pair per key.         *)
(***************************************************************************)
EXTENDS Integers, Sequences, FiniteSets, TLC

VARIABLES
    tokens,         \* the token stream handed to parse_program
    parsed,         \* what parse_program returned for it (NotYet before)
    NEXT_UNIVERSE,  \* exec/ast.rs:39, the process-wide counter
    stdin,          \* lines still to be read from standard input
    stdout,         \* lines written to standard output so far
    effects,        \* the input/print effects performed so far, with their tags
    job,            \* the evaluator call under way: expr, prog, args, locals
    result          \* what that call returned (NotYet before)

vars == <<tokens, parsed, NEXT_UNIVERSE, stdin, stdout, effects, job, result>>

parseVars == <<tokens, parsed>>
ioVars == <<NEXT_UNIVERSE, stdin, stdout, effects>>
evalVars == <<job, result>>

NotYet == [ok |-> "NotYet"]

\* ------------------------------------------------------------------------
\* Generic helpers
\* ------------------------------------------------------------------------

None == <<>>
Some(x) == <<x>>

SetMax(S) == CHOOSE x \in S : \A y \in S : y <= x

SeqsUpTo(S, n) == UNION {[1..m -> S] : m \in 0..n}

\* HashMap::get
MapGet(m, key) ==
    LET hits == {i \in 1..Len(m) : m[i][1] = key}
    IN  IF hits = {} THEN None ELSE Some(m[CHOOSE i \in hits : TRUE][2])

\* an insert that keeps the value of an existing key
MapInsertOnce(m, key, val) ==
    IF \E i \in 1..Len(m) : m[i][1] = key THEN m ELSE Append(m, <<key, val>>)

\* HashMap::insert: the value of an existing key is replaced
MapInsert(m, key, val) ==
    IF \E i \in 1..Len(m) : m[i][1] = key
    THEN [i \in 1..Len(m) |-> IF m[i][1] = key THEN <<key, val>> ELSE m[i]]
    ELSE Append(m, <<key, val>>)

EmptyMap == <<>>

\* ------------------------------------------------------------------------
\* Tokens (parse/lex.rs) and errors (lib.rs)
\* ------------------------------------------------------------------------

Ident(name, scalar, arity) ==
    [k |-> "Ident", name |-> name, scalar |-> scalar, arity |-> arity]
NumLx(text) == [k |-> "Num", text |-> text]
StrLx(s) == [k |-> "Str", s |-> s]
Kw(k) == [k |-> k]    \* Def Let If True False Null Pipe Dollar Arrow

SrcRange(line, col, len) == [line |-> line, col |-> col, len |-> len]

Token(lexeme, range) == [lex |-> lexeme, range |-> range]

\* Error { kind, range: None }
Error(kind, what) == [kind |-> kind, what |-> what, range |-> None]
\* Error::at
at(err, range) == [err EXCEPT !.range = Some(range)]

unexpected_eof == Error("Unexpected", "Eof")
expected(what) == Error("Expected", what)
unexpected(what) == Error("Unexpected", what)
bad_number == Error("BadNumber", "")
unknown_ident(name) == Error("UnknownIdent", name)
expected_delimiter(c) == Error("ExpectedDelimiter", c)

\* ------------------------------------------------------------------------
\* AST (parse/ast.rs)
\* ------------------------------------------------------------------------

LitNum(n) == [e |-> "Literal", l |-> "Num", n |-> n]
LitStr(s) == [e |-> "Literal", l |-> "Str", s |-> s]
LitBool(b) == [e |-> "Literal", l |-> "Bool", b |-> b]
LitNull == [e |-> "Literal", l |-> "Null"]
If(p, te, fe) == [e |-> "If", p |-> p, te |-> te, fe |-> fe]
Let(decl, x, then) == [e |-> "Let", decl |-> decl, x |-> x, then |-> then]
Builtin(op, operands) == [e |-> "Builtin", op |-> op, operands |-> operands]
Call(name, cargs) == [e |-> "Call", name |-> name, cargs |-> cargs]
Closure(decl, body) == [e |-> "Closure", decl |-> decl, body |-> body]

Single(name) == [d |-> "Single", name |-> name]
Destructure(names) == [d |-> "Destructure", names |-> names]


\* ------------------------------------------------------------------------
\* Parser (parse/parse.rs).  The token iterator is the pair (toks, pos):
\* pos is the index of the token tokens.next() would return.
\* A parse returns [ok |-> "Ok", ...], [ok |-> "Err", err] or, where the
\* code reaches unimplemented!(), [ok |-> "Panic"].
\* ------------------------------------------------------------------------

PErr(err) == [ok |-> "Err", err |-> err]
PPanic == [ok |-> "Panic"]
\* uses: one record per identifier the parser resolved at a use site, kept
\* beside the AST to observe what the scope held there (Decl drops arities)
POk(expr, pos, uses) == [ok |-> "Ok", expr |-> expr, pos |-> pos, uses |-> uses]

Digits == <<"0", "1", "2", "3", "4", "5", "6", "7", "8", "9">>
IsDigit(c) == \E i \in 1..10 : Digits[i] = c
DigitVal(c) == (CHOOSE i \in 1..10 : Digits[i] = c) - 1

RECURSIVE DecimalValue(_)
DecimalValue(text) ==
    IF text = <<>> THEN 0
    ELSE 10 * DecimalValue(SubSeq(text, 1, Len(text) - 1)) + DigitVal(text[Len(text)])

\* str::parse::<f64> on the text of a Num lexeme (a digit, then letters and
\* digits): a run of digits is its decimal value; a run with the letter x in
\* it is no number.
ParseF64(text) ==
    IF \A i \in 1..Len(text) : IsDigit(text[i])
    THEN Some(DecimalValue(text))
    ELSE None

RECURSIVE read_params_loop(_, _, _)
read_params_loop(toks, pos, params) ==
    IF pos > Len(toks) THEN PErr(expected_delimiter("|"))
    ELSE LET t == toks[pos] IN
         CASE t.lex.k = "Ident" ->
                IF t.lex.scalar
                THEN PErr(at(expected("ArityIdent"), t.range))
                ELSE read_params_loop(toks, pos + 1,
                                      Append(params, <<t.lex.name, t.lex.arity>>))
           [] t.lex.k = "Pipe" -> [ok |-> "Ok", params |-> params, pos |-> pos + 1]
           [] OTHER -> PErr(at(expected("Pipe"), t.range))

\* variant: the parameters are bound without their quote marks
read_params_unmarked(toks, pos) ==
    IF pos > Len(toks) THEN PErr(expected("Pipe"))
    ELSE IF toks[pos].lex.k # "Pipe"
         THEN PErr(at(expected("Pipe"), toks[pos].range))
         ELSE LET r == read_params_loop(toks, pos + 1, <<>>) IN
              IF r.ok # "Ok" THEN r
              ELSE [r EXCEPT !.params = [i \in DOMAIN r.params |-> <<r.params[i][1], 0>>]]

read_params(toks, pos) ==
    IF pos > Len(toks) THEN PErr(expected("Pipe"))
    ELSE IF toks[pos].lex.k # "Pipe"
         THEN PErr(at(expected("Pipe"), toks[pos].range))
         ELSE read_params_loop(toks, pos + 1, <<>>)

\* ParseDecl: [pd |-> "Single", ident |-> <<name, arity>>] or
\*            [pd |-> "Destructure", idents |-> <<<<name, arity>>, ...>>]
read_decl(toks, pos) ==
    IF pos > Len(toks) THEN PErr(expected("ArityIdent"))
    ELSE LET t == toks[pos] IN
         CASE t.lex.k = "Pipe" ->
                LET r == read_params(toks, pos) IN
                IF r.ok # "Ok" THEN r
                ELSE [ok |-> "Ok", pos |-> r.pos,
                      decl |-> [pd |-> "Destructure", idents |-> r.params]]
           [] t.lex.k = "Ident" /\ ~t.lex.scalar ->
                [ok |-> "Ok", pos |-> pos + 1,
                 decl |-> [pd |-> "Single", ident |-> <<t.lex.name, t.lex.arity>>]]
           [] OTHER -> PErr(at(expected("ArityIdent"), t.range))

BUILTINS ==
    << <<"__head", 1>>, <<"__tail", 1>>, <<"__wrap", 1>>, <<"__cat", 2>>,
       <<"__add", 2>>, <<"__sub", 2>>, <<"__mul", 2>>, <<"__div", 2>>,
       <<"__rem", 2>>, <<"__eq", 2>>, <<"__less", 2>>, <<"__lesseq", 2>>,
       <<"__floor", 1>>, <<"__ceil", 1>>,
       <<"__input", 1>>, <<"__print", 2>>, <<"__debug", 1>> >>

is_builtin(name) == \E i \in 1..Len(BUILTINS) : BUILTINS[i][1] = name

\* the arms of read_builtin's match: the variant built and how many
\* read_expr calls the arm makes
read_builtin_arms ==
    << <<"__head", "Head", 1>>, <<"__tail", "Tail", 1>>, <<"__wrap", "Wrap", 1>>,
       <<"__cat", "Cat", 2>>,
       <<"__input", "Input", 1>>, <<"__print", "Print", 2>>, <<"__debug", "Debug", 1>>,
       <<"__add", "Add", 2>>, <<"__sub", "Sub", 2>>, <<"__mul", "Mul", 2>>,
       <<"__div", "Div", 2>>, <<"__rem", "Rem", 2>>, <<"__eq", "Eq", 2>>,
       <<"__less", "Less", 2>>, <<"__lesseq", "LessEq", 2>>,
       <<"__floor", "Floor", 1>>, <<"__ceil", "Ceil", 1>> >>

\* get_ident_arity without its .rev(): the first match of the chain wins
get_ident_arity_norev(ident, globals, locals) ==
    LET chain == BUILTINS \o globals \o locals
        hits == {i \in 1..Len(chain) : chain[i][1] = ident}
    IN  IF hits = {} THEN None
        ELSE Some(chain[CHOOSE i \in hits : \A j \in hits : i <= j][2])

\* get_ident_arity without the globals in its chain
get_ident_arity_no_globals(ident, globals, locals) ==
    LET chain == BUILTINS \o locals
        hits == {i \in 1..Len(chain) : chain[i][1] = ident}
    IN  IF hits = {} THEN None ELSE Some(chain[SetMax(hits)][2])

\* the closure get_ident_arity of read_expr: built-ins, then globals, then
\* locals, searched from the back
get_ident_arity(ident, globals, locals) ==
    LET chain == BUILTINS \o globals \o locals
        hits == {i \in 1..Len(chain) : chain[i][1] = ident}
    IN  IF hits = {} THEN None ELSE Some(chain[SetMax(hits)][2])

\* one identifier resolved at a use site: where it stood, what the parser
\* built for it and the scope read_expr held there
Use(pos, name, scalar, node, nargs, globals, locals) ==
    [pos |-> pos, name |-> name, scalar |-> scalar, node |-> node,
     nargs |-> nargs, globals |-> globals, locals |-> locals]

RECURSIVE read_expr(_, _, _, _)
RECURSIVE read_exprs(_, _, _, _, _)

\* n successive read_expr calls, each `?`-propagating its error:
\* [ok |-> "Ok", exprs, pos, uses]
read_exprs(toks, pos, globals, locals, n) ==
    IF n = 0 THEN [ok |-> "Ok", exprs |-> <<>>, pos |-> pos, uses |-> <<>>]
    ELSE LET first == read_expr(toks, pos, globals, locals) IN
         IF first.ok # "Ok" THEN first
         ELSE LET rest == read_exprs(toks, first.pos, globals, locals, n - 1) IN
              IF rest.ok # "Ok" THEN rest
              ELSE [ok |-> "Ok", exprs |-> <<first.expr>> \o rest.exprs,
                    pos |-> rest.pos, uses |-> first.uses \o rest.uses]

read_builtin(name, toks, pos, globals, locals) ==
    LET arms == {i \in 1..Len(read_builtin_arms) : read_builtin_arms[i][1] = name} IN
    IF arms = {} THEN PPanic    \* _ => unimplemented!()
    ELSE LET arm == read_builtin_arms[CHOOSE i \in arms : TRUE]
             ops == read_exprs(toks, pos, globals, locals, arm[3])
         IN  IF ops.ok # "Ok" THEN ops
             ELSE [ok |-> "Ok", builtin |-> Builtin(arm[2], ops.exprs),
                   pos |-> ops.pos, uses |-> ops.uses]

\* the Lexeme::Ident arm of read_expr, after tokens.next() confirmed the ident
read_expr_ident(toks, pos, globals, locals) ==
    LET t == toks[pos]
        name == t.lex.name
        found == get_ident_arity(name, globals, locals)
    IN  IF pos + 1 <= Len(toks) /\ toks[pos + 1].lex.k = "Arrow"
        THEN LET body == read_expr(toks, pos + 2, globals,
                                   Append(locals, <<name, t.lex.arity>>))
             IN  IF body.ok # "Ok" THEN body
                 ELSE POk(Closure(Single(name), body.expr), body.pos, body.uses)
        ELSE IF found # None
        THEN IF t.lex.arity # 0
             THEN PErr(at(expected("NoArityIdent"), t.range))
             ELSE IF t.lex.scalar
             THEN POk(Call(name, <<>>), pos + 1,
                      <<Use(pos, name, TRUE, "Call", 0, globals, locals)>>)
             ELSE IF is_builtin(name)
             THEN LET b == read_builtin(name, toks, pos + 1, globals, locals) IN
                  IF b.ok # "Ok" THEN b
                  ELSE POk(b.builtin, b.pos,
                           <<Use(pos, name, FALSE, "Builtin",
                                 Len(b.builtin.operands), globals, locals)>> \o b.uses)
             ELSE LET as == read_exprs(toks, pos + 1, globals, locals, found[1]) IN
                  IF as.ok # "Ok" THEN as
                  ELSE POk(Call(name, as.exprs), as.pos,
                           <<Use(pos, name, FALSE, "Call",
                                 Len(as.exprs), globals, locals)>> \o as.uses)
        ELSE PErr(at(unknown_ident(name), t.range))

\* the Lexeme::Pipe arm of read_expr
read_expr_pipe(toks, pos, globals, locals) ==
    LET ps == read_params(toks, pos) IN
    IF ps.ok # "Ok" THEN ps
    ELSE IF ps.pos > Len(toks) THEN PErr(expected("Arrow"))
    ELSE IF toks[ps.pos].lex.k # "Arrow"
    THEN PErr(at(expected("Arrow"), toks[ps.pos].range))
    ELSE LET body == read_expr(toks, ps.pos + 1, globals, locals \o ps.params) IN
         IF body.ok # "Ok" THEN body
         ELSE POk(Closure(Destructure([i \in 1..Len(ps.params) |-> ps.params[i][1]]),
                          body.expr),
                  body.pos, body.uses)

\* the Lexeme::Let arm of read_expr
read_expr_let(toks, pos, globals, locals) ==
    LET d == read_decl(toks, pos + 1) IN
    IF d.ok # "Ok" THEN d
    ELSE LET x == read_expr(toks, d.pos, globals, locals) IN
         IF x.ok # "Ok" THEN x
         ELSE LET then_locals ==
                      IF d.decl.pd = "Single" THEN Append(locals, d.decl.ident)
                      ELSE locals \o d.decl.idents
                  decl == IF d.decl.pd = "Single" THEN Single(d.decl.ident[1])
                          ELSE Destructure([i \in 1..Len(d.decl.idents) |->
                                                d.decl.idents[i][1]])
                  then == read_expr(toks, x.pos, globals, then_locals)
              IN  IF then.ok # "Ok" THEN then
                  ELSE POk(Let(decl, x.expr, then.expr), then.pos, x.uses \o then.uses)

read_expr(toks, pos, globals, locals) ==
    IF pos > Len(toks) THEN PErr(unexpected_eof)
    ELSE LET t == toks[pos]
             k == t.lex.k
         IN
         CASE k = "Num" ->
                LET num == ParseF64(t.lex.text) IN
                IF num = None THEN PErr(at(bad_number, t.range))
                ELSE POk(LitNum(num[1]), pos + 1, <<>>)
           [] k = "True" -> POk(LitBool(TRUE), pos + 1, <<>>)
           [] k = "False" -> POk(LitBool(FALSE), pos + 1, <<>>)
           [] k = "Null" -> POk(LitNull, pos + 1, <<>>)
           [] k = "Str" -> POk(LitStr(t.lex.s), pos + 1, <<>>)
           [] k = "Ident" -> read_expr_ident(toks, pos, globals, locals)
           [] k = "Pipe" -> read_expr_pipe(toks, pos, globals, locals)
           [] k = "If" ->
                LET r == read_exprs(toks, pos + 1, globals, locals, 3) IN
                IF r.ok # "Ok" THEN r
                ELSE POk(If(r.exprs[1], r.exprs[2], r.exprs[3]), r.pos, r.uses)
           [] k = "Let" -> read_expr_let(toks, pos, globals, locals)
           [] k = "Def" -> PErr(at(unexpected("Def"), t.range))
           [] OTHER -> PPanic    \* t => unimplemented!("{:?}", t)

RECURSIVE gen_global_arities_loop(_, _, _)
gen_global_arities_loop(toks, pos, arities) ==
    IF pos > Len(toks) THEN [ok |-> "Ok", arities |-> arities]
    ELSE IF toks[pos].lex.k # "Def"
    THEN gen_global_arities_loop(toks, pos + 1, arities)
    ELSE IF pos + 1 > Len(toks) THEN PErr(unexpected_eof)
    ELSE LET t == toks[pos + 1] IN
         IF t.lex.k = "Ident"
         THEN gen_global_arities_loop(toks, pos + 2,
                                      Append(arities, <<t.lex.name, t.lex.arity>>))
         ELSE PErr(at(expected("NoArityIdent"), t.range))

\* a prepass that forgets the quote marks of the names it records
gen_global_arities_unmarked(toks) ==
    LET r == gen_global_arities_loop(toks, 1, <<>>) IN
    IF r.ok = "Ok"
    THEN [r EXCEPT !.arities = [i \in DOMAIN r.arities |-> <<r.arities[i][1], 0>>]]
    ELSE r

\* a prepass that records the first definition only
gen_global_arities_first(toks) ==
    LET r == gen_global_arities_loop(toks, 1, <<>>) IN
    IF r.ok = "Ok" /\ Len(r.arities) > 1
    THEN [r EXCEPT !.arities = SubSeq(r.arities, 1, 1)]
    ELSE r

gen_global_arities(toks) == gen_global_arities_loop(toks, 1, <<>>)

\* the while loop of parse_program; globals is prog.globals
RECURSIVE parse_program_loop(_, _, _, _, _)
parse_program_loop(toks, pos, global_arities, globals, uses) ==
    IF pos > Len(toks)
    THEN [ok |-> "Ok", globals |-> globals, uses |-> uses, arities |-> global_arities]
    ELSE LET token == toks[pos] IN
         IF token.lex.k # "Def" THEN PErr(at(expected("Def"), token.range))
         ELSE IF pos + 1 > Len(toks) THEN PErr(unexpected_eof)
         ELSE LET t == toks[pos + 1] IN
              IF t.lex.k # "Ident" THEN PErr(at(expected("ArityIdent"), t.range))
              ELSE IF t.lex.scalar THEN PErr(at(expected("ArityIdent"), t.range))
              ELSE LET body == read_expr(toks, pos + 2, global_arities, <<>>) IN
                   IF body.ok # "Ok" THEN body
                   ELSE parse_program_loop(toks, body.pos, global_arities,
                                           MapInsert(globals, t.lex.name, body.expr),
                                           uses \o body.uses)

parse_program(toks) ==
    LET global_arities == gen_global_arities(toks) IN
    IF global_arities.ok # "Ok" THEN global_arities
    ELSE parse_program_loop(toks, 1, global_arities.arities, EmptyMap, <<>>)

\* ------------------------------------------------------------------------
\* Token streams given to the parser
\* ------------------------------------------------------------------------

\* the tokens of a stream of lexemes, the i-th at column i of line 1
WithRanges(lexs) == [i \in 1..Len(lexs) |-> Token(lexs[i], SrcRange(1, i, 1))]

\* the most tokens a stream has after its leading `def <name>`
MaxBody == 5

fN(arity) == Ident("f", FALSE, arity)
gN(arity) == Ident("g", FALSE, arity)
One == NumLx(<<"1">>)

\* three alphabets for what follows the leading `def <name>`: scoping forms,
\* further definitions, parameter lists
ScopeLexemes ==
    {Kw("Let"), Kw("If"), Kw("Arrow"), One, fN(0), fN(1)}
DefLexemes ==
    {Kw("Def"), One, fN(0), gN(0), gN(1), Ident("g", TRUE, 0)}
PipeLexemes ==
    {Kw("Pipe"), Kw("Arrow"), One, fN(0), fN(1)}

LexemeStreams ==
    SeqsUpTo(ScopeLexemes \cup DefLexemes \cup PipeLexemes, 2)
    \cup {<<Kw("Def"), head>> \o body :
            head \in {fN(0), fN(1)},
            body \in SeqsUpTo(ScopeLexemes, MaxBody)
                     \cup SeqsUpTo(DefLexemes, MaxBody)
                     \cup SeqsUpTo(PipeLexemes, MaxBody)}

TokenStreams == {WithRanges(l) : l \in LexemeStreams}

InitParse ==
    /\ tokens \in TokenStreams
    /\ parsed = NotYet
    /\ NEXT_UNIVERSE = 0
    /\ stdin = <<>>
    /\ stdout = <<>>
    /\ effects = <<>>
    /\ job = NotYet
    /\ result = NotYet

\* parse_program applied to the token stream
ParseProgram ==
    /\ parsed = NotYet
    /\ parsed' = parse_program(tokens)
    /\ UNCHANGED <<tokens, ioVars, evalVars>>

NextParse == ParseProgram

SpecParse == InitParse /\ [][NextParse]_vars

\* ------------------------------------------------------------------------
\* Claims about the parser, checked under SpecParse
\* ------------------------------------------------------------------------

\* the entries of a (name, arity) table that carry `name`
Entries(table, name) == {i \in 1..Len(table) : table[i][1] = name}

\* the arity a name resolves to in a scope: the innermost local of that name,
\* else the global of that name (the last one the table holds)
ResolvedArity(u) ==
    IF Entries(u.locals, u.name) # {}
    THEN u.locals[SetMax(Entries(u.locals, u.name))][2]
    ELSE u.globals[SetMax(Entries(u.globals, u.name))][2]

InScope(u) == Entries(u.locals, u.name) # {} \/ Entries(u.globals, u.name) # {}

CallUses ==
    IF parsed.ok = "Ok"
    THEN {parsed.uses[i] : i \in {j \in 1..Len(parsed.uses) :
                                    parsed.uses[j].node = "Call"}}
    ELSE {}

\* C1 as stated: when parse_program returns Ok, every Call node has as many
\* arguments as the arity its name resolves to at the use site.
C1_EveryCallHasResolvedArity ==
    \A u \in CallUses : InScope(u) => u.nargs = ResolvedArity(u)

\* C1 amended: when parse_program returns Ok, every Call node written without
\* `$` has as many arguments as the arity its name resolves to at the use site
\* (innermost local, else the global), and every Call node written with `$`
\* has no arguments, whatever that arity is.
C1_CallArityUnlessScalar ==
    \A u \in CallUses :
        InScope(u) => u.nargs = (IF u.scalar THEN 0 ELSE ResolvedArity(u))

\* a parsed call of a local of arity 1 that shadows a global of arity 0
C1_Witness ==
    \E u \in CallUses :
        /\ ~u.scalar
        /\ u.nargs = 1
        /\ Entries(u.locals, u.name) # {}
        /\ Entries(u.globals, u.name) # {}
        /\ u.globals[SetMax(Entries(u.globals, u.name))][2] = 0

\* the positions of the `def <name>` pairs of the token stream
DefsOf(name) ==
    {i \in 1..(Len(tokens) - 1) :
        /\ tokens[i].lex.k = "Def"
        /\ tokens[i + 1].lex.k = "Ident"
        /\ tokens[i + 1].lex.name = name}

\* a use of a global (no local of the name in scope) whose only `def` comes
\* later in the source
ForwardUse(u) ==
    /\ ~u.scalar
    /\ Entries(u.locals, u.name) = {}
    /\ Cardinality(DefsOf(u.name)) = 1
    /\ \A i \in DefsOf(u.name) : i > u.pos

\* C2: a use of a global whose `def` appears later in the source is parsed
\* with the arity written on that `def` (so many following expressions become
\* its arguments), and no name that has a `def` anywhere in the source is
\* rejected as unknown.
C2_ForwardReference ==
    /\ parsed.ok = "Err" /\ parsed.err.kind = "UnknownIdent"
           => DefsOf(parsed.err.what) = {}
    /\ \A u \in CallUses :
           ForwardUse(u) =>
               \A i \in DefsOf(u.name) : u.nargs = tokens[i + 1].lex.arity

\* a program parsed with a forward reference to a global of arity 1
C2_Witness ==
    \E u \in CallUses : ForwardUse(u) /\ u.nargs = 1

\* ------------------------------------------------------------------------
\* Values (exec/ast.rs).  A Num is modelled by an integer; an Rc<Vec<Value>>
\* by the sequence it holds (buffers are never mutated).
\* ------------------------------------------------------------------------

VNull == [t |-> "Null"]
VBool(b) == [t |-> "Bool", b |-> b]
VNum(n) == [t |-> "Num", n |-> n]
VChar(c) == [t |-> "Char", c |-> c]
VList(offset, buf) == [t |-> "List", offset |-> offset, buf |-> buf]
VFunc(locals, decl, body) ==
    [t |-> "Func", locals |-> locals, decl |-> decl, body |-> body]
VUniverse(n) == [t |-> "Universe", n |-> n]

\* buf[offset..]
Live(offset, buf) == SubSeq(buf, offset + 1, Len(buf))

\* the state the evaluator works on: the counter, standard input and output,
\* and the record of the effects performed (one entry per read_line/println!
\* of input/print, with the tag that was consumed)
IoState(next, in, out, effs) ==
    [next |-> next, stdin |-> in, stdout |-> out, effects |-> effs]

\* what an evaluator function returns: a value, or a panic!()
ROk(v, io) == [ok |-> "Ok", v |-> v, io |-> io]
RPanic(msg, io) == [ok |-> "Panic", msg |-> msg, io |-> io]
\* an f64 result that is no integer (or the recursion limit of the model)
ROut(why, io) == [ok |-> "Out", msg |-> why, io |-> io]

RECURSIVE NatToStr(_)
NatToStr(n) ==
    IF n < 10 THEN <<Digits[n + 1]>>
    ELSE NatToStr(n \div 10) \o <<Digits[(n % 10) + 1]>>

\* format!("{}", f64) of an integer-valued number
NumToStr(n) == IF n < 0 THEN <<"-">> \o NatToStr(0 - n) ELSE NatToStr(n)

RECURSIVE JoinStr(_, _)
JoinStr(strs, sep) ==
    IF strs = <<>> THEN <<>>
    ELSE IF Len(strs) = 1 THEN strs[1]
    ELSE strs[1] \o sep \o JoinStr(Tail(strs), sep)

RECURSIVE to_str(_)

\* to_str without its arm for the list with no live element
to_str_no_empty_arm(v) ==
    CASE v.t = "Null" -> <<"n", "u", "l", "l">>
      [] v.t = "Bool" -> IF v.b THEN <<"t", "r", "u", "e">>
                                ELSE <<"f", "a", "l", "s", "e">>
      [] v.t = "Num" -> NumToStr(v.n)
      [] v.t = "Char" -> <<v.c>>
      [] v.t = "List" ->
            LET live == Live(v.offset, v.buf) IN
            IF \A i \in 1..Len(live) : live[i].t = "Char"
            THEN [i \in 1..Len(live) |-> live[i].c]
            ELSE <<"[">> \o JoinStr([i \in 1..Len(live) |-> to_str(live[i])],
                                    <<",", " ">>) \o <<"]">>
      [] v.t = "Func" -> <<"<", "f", "u", "n", "c", ">">>
      [] v.t = "Universe" -> <<"<", "u", "n", "i", "v", "e", "r", "s", "e", ">">>

\* Value::to_str
to_str(v) ==
    CASE v.t = "Null" -> <<"n", "u", "l", "l">>
      [] v.t = "Bool" -> IF v.b THEN <<"t", "r", "u", "e">>
                                ELSE <<"f", "a", "l", "s", "e">>
      [] v.t = "Num" -> NumToStr(v.n)
      [] v.t = "Char" -> <<v.c>>
      [] v.t = "List" ->
            LET live == Live(v.offset, v.buf) IN
            IF Len(live) = 0 THEN <<"[", "]">>
            ELSE IF \A i \in 1..Len(live) : live[i].t = "Char"
            THEN [i \in 1..Len(live) |-> live[i].c]
            ELSE <<"[">> \o JoinStr([i \in 1..Len(live) |-> to_str(live[i])],
                                    <<",", " ">>) \o <<"]">>
      [] v.t = "Func" -> <<"<", "f", "u", "n", "c", ">">>
      [] v.t = "Universe" -> <<"<", "u", "n", "i", "v", "e", "r", "s", "e", ">">>

\* io::stdin().read_line: the next line, or nothing at the end of input
read_line(in) == IF in = <<>> THEN <<>> ELSE in[1]

\* Value::input without the guard on the tag
input_any_universe(self, io) ==
    IF self.t = "Universe"
    THEN LET io1 == [io EXCEPT !.next = io.next + 1]
             line == read_line(io1.stdin)
         IN  ROk(VList(0, <<VUniverse(self.n + 1),
                            VList(0, [i \in 1..Len(line) |-> VChar(line[i])])>>),
                 [io1 EXCEPT !.stdin = IF @ = <<>> THEN <<>> ELSE Tail(@),
                             !.effects = Append(@, [op |-> "input", tag |-> self.n])])
    ELSE RPanic("Invalid universe value!", io)

\* Value::input.  The match guard runs fetch_add for every Universe value,
\* whether or not the tag then matches.
input(self, io) ==
    IF self.t = "Universe"
    THEN LET fetched == io.next
             io1 == [io EXCEPT !.next = fetched + 1]
         IN  IF self.n = fetched
             THEN LET line == read_line(io1.stdin) IN
                  ROk(VList(0, <<VUniverse(self.n + 1),
                                 VList(0, [i \in 1..Len(line) |-> VChar(line[i])])>>),
                      [io1 EXCEPT !.stdin = IF @ = <<>> THEN <<>> ELSE Tail(@),
                                  !.effects = Append(@, [op |-> "input",
                                                         tag |-> self.n])])
             ELSE RPanic("Invalid universe value!", io1)
    ELSE RPanic("Invalid universe value!", io)

\* Value::print without the guard on the tag
print_any_universe(self, other, io) ==
    IF self.t = "Universe"
    THEN LET io1 == [io EXCEPT !.next = io.next + 1] IN
         ROk(VUniverse(self.n + 1),
             [io1 EXCEPT !.stdout = Append(@, [line |-> to_str(other)]),
                         !.effects = Append(@, [op |-> "print", tag |-> self.n])])
    ELSE RPanic("Invalid universe value!", io)

\* Value::print handing back the universe it was given
print_same_universe(self, other, io) ==
    IF self.t = "Universe"
    THEN LET fetched == io.next
             io1 == [io EXCEPT !.next = fetched + 1]
         IN  IF self.n = fetched
             THEN ROk(VUniverse(self.n),
                      [io1 EXCEPT !.stdout = Append(@, [line |-> to_str(other)]),
                                  !.effects = Append(@, [op |-> "print",
                                                         tag |-> self.n])])
             ELSE RPanic("Invalid universe value!", io1)
    ELSE RPanic("Invalid universe value!", io)

\* Value::print
print(self, other, io) ==
    IF self.t = "Universe"
    THEN LET fetched == io.next
             io1 == [io EXCEPT !.next = fetched + 1]
         IN  IF self.n = fetched
             THEN ROk(VUniverse(self.n + 1),
                      [io1 EXCEPT !.stdout = Append(@, [line |-> to_str(other)]),
                                  !.effects = Append(@, [op |-> "print",
                                                         tag |-> self.n])])
             ELSE RPanic("Invalid universe value!", io1)
    ELSE RPanic("Invalid universe value!", io)

head(self) ==
    IF self.t = "List"
    THEN IF self.offset < Len(self.buf) THEN self.buf[self.offset + 1] ELSE VNull
    ELSE self

Min(a, b) == IF a < b THEN a ELSE b

\* Value::tail without the .min(buf.len())
tail_unclamped(self) ==
    IF self.t = "List"
    THEN VList(self.offset + 1, self.buf)
    ELSE VNull

\* Value::tail
tail(self) ==
    IF self.t = "List"
    THEN VList(Min(self.offset + 1, Len(self.buf)), self.buf)
    ELSE VNull

wrap(self) == VList(0, <<self>>)

\* Value::cat copying the whole buffers instead of the live slices
cat_whole_buffers(self, other) ==
    CASE self.t = "List" /\ other.t = "List" -> VList(0, self.buf \o other.buf)
      [] self.t = "List" /\ other.t # "List" -> VList(0, Append(self.buf, other))
      [] self.t # "List" /\ other.t = "List" -> VList(0, <<self>> \o other.buf)
      [] OTHER -> VNull

\* Value::cat
cat(self, other) ==
    CASE self.t = "List" /\ other.t = "List" ->
            VList(0, Live(self.offset, self.buf) \o Live(other.offset, other.buf))
      [] self.t = "List" /\ other.t # "List" ->
            VList(0, Append(Live(self.offset, self.buf), other))
      [] self.t # "List" /\ other.t = "List" ->
            VList(0, <<self>> \o Live(other.offset, other.buf))
      [] OTHER -> VNull

RECURSIVE eq(_, _)

\* Value::eq with `<=` between the two lengths
eq_left_shorter(self, other) ==
    CASE self.t = "Null" /\ other.t = "Null" -> TRUE
      [] self.t = "Bool" /\ other.t = "Bool" -> self.b = other.b
      [] self.t = "Num" /\ other.t = "Num" -> self.n = other.n
      [] self.t = "Char" /\ other.t = "Char" -> self.c = other.c
      [] self.t = "List" /\ other.t = "List" ->
            LET len_a == Len(self.buf) - self.offset
                len_b == Len(other.buf) - other.offset
            IN  IF len_a = 0 /\ len_b = 0 THEN TRUE
                ELSE /\ len_a <= len_b
                     /\ ~\E i \in 1..Min(Len(self.buf), Len(other.buf)) :
                            ~eq(self.buf[i], other.buf[i])
      [] OTHER -> FALSE

\* Value::eq.  The element loop zips the two buffers from their starts, not
\* from the offsets.
eq(self, other) ==
    CASE self.t = "Null" /\ other.t = "Null" -> TRUE
      [] self.t = "Bool" /\ other.t = "Bool" -> self.b = other.b
      [] self.t = "Num" /\ other.t = "Num" -> self.n = other.n
      [] self.t = "Char" /\ other.t = "Char" -> self.c = other.c
      [] self.t = "List" /\ other.t = "List" ->
            LET len_a == Len(self.buf) - self.offset
                len_b == Len(other.buf) - other.offset
            IN  IF len_a = 0 /\ len_b = 0 THEN TRUE
                ELSE /\ len_a = len_b
                     /\ ~\E i \in 1..Min(Len(self.buf), Len(other.buf)) :
                            ~eq(self.buf[i], other.buf[i])
      [] OTHER -> FALSE

\* add, sub, mul, div, rem, less, lesseq, floor, ceil: two Nums (one for
\* floor and ceil), anything else is unimplemented!()
arith(op, io, a, b) ==
    IF a.t # "Num" \/ b.t # "Num" THEN RPanic("not implemented", io)
    ELSE CASE op = "Add" -> ROk(VNum(a.n + b.n), io)
           [] op = "Sub" -> ROk(VNum(a.n - b.n), io)
           [] op = "Mul" -> ROk(VNum(a.n * b.n), io)
           [] op = "Div" -> IF b.n > 0 /\ a.n >= 0 /\ a.n % b.n = 0
                            THEN ROk(VNum(a.n \div b.n), io)
                            ELSE ROut("no integer", io)
           [] op = "Rem" -> IF b.n > 0 /\ a.n >= 0
                            THEN ROk(VNum(a.n % b.n), io)
                            ELSE ROut("no integer", io)
           [] op = "Less" -> ROk(VBool(a.n < b.n), io)
           [] op = "LessEq" -> ROk(VBool(a.n <= b.n), io)

\* the operation of a Builtin applied to its evaluated operands
apply_builtin(op, vals, io) ==
    CASE op = "Print" -> print(vals[1], vals[2], io)
      [] op = "Input" -> input(vals[1], io)
      [] op = "Debug" ->
            ROk(vals[1], [io EXCEPT !.stdout = Append(@, [debug |-> vals[1]])])
      [] op = "Head" -> ROk(head(vals[1]), io)
      [] op = "Tail" -> ROk(tail(vals[1]), io)
      [] op = "Wrap" -> ROk(wrap(vals[1]), io)
      [] op = "Cat" -> ROk(cat(vals[1], vals[2]), io)
      [] op \in {"Add", "Sub", "Mul", "Div", "Rem", "Less", "LessEq"} ->
            arith(op, io, vals[1], vals[2])
      [] op = "Eq" -> ROk(VBool(eq(vals[1], vals[2])), io)
      [] op \in {"Floor", "Ceil"} ->
            IF vals[1].t = "Num" THEN ROk(vals[1], io)
            ELSE RPanic("not implemented", io)
      [] OTHER -> RPanic("not implemented", io)

\* binding names to the live elements of a list, one insert per pair of the zip
RECURSIVE insert_zip(_, _, _)
insert_zip(locals, names, vals) ==
    IF names = <<>> \/ vals = <<>> THEN locals
    ELSE insert_zip(MapInsert(locals, names[1], vals[1]), Tail(names), Tail(vals))

BOk(locals) == [ok |-> "Ok", locals |-> locals]
BPanic(msg) == [ok |-> "Panic", msg |-> msg]

\* call_bind without the length test: zip binds what it can
call_bind_lenient(decl, arg, locals) ==
    IF decl.d = "Single" THEN BOk(MapInsert(locals, decl.name, arg))
    ELSE IF arg.t = "List"
         THEN BOk(insert_zip(locals, decl.names, Live(arg.offset, arg.buf)))
         ELSE BPanic("Cannot destructure non-list!")

\* the match on decl in Value::call
call_bind(decl, arg, locals) ==
    IF decl.d = "Single" THEN BOk(MapInsert(locals, decl.name, arg))
    ELSE IF arg.t = "List"
         THEN IF Len(Live(arg.offset, arg.buf)) # Len(decl.names)
              THEN BPanic("Cannot destructure list of incorrect length")
              ELSE BOk(insert_zip(locals, decl.names, Live(arg.offset, arg.buf)))
         ELSE BPanic("Cannot destructure non-list!")

\* the match on decl in eval's Expr::Let
let_bind(decl, val, locals) ==
    IF decl.d = "Single" THEN BOk(MapInsert(locals, decl.name, val))
    ELSE IF val.t = "List"
         THEN IF Len(Live(val.offset, val.buf)) # Len(decl.names)
              THEN BPanic("Cannot destructure list of incorrect length")
              ELSE BOk(insert_zip(locals, decl.names, Live(val.offset, val.buf)))
         ELSE BPanic("Cannot destructure non-list!")

\* the match on decl in eval's Expr::Closure with a pending argument
closure_bind(decl, arg, locals) ==
    IF decl.d = "Single" THEN BOk(MapInsert(locals, decl.name, arg))
    ELSE IF arg.t = "List"
         THEN IF Len(Live(arg.offset, arg.buf)) # Len(decl.names)
              THEN BPanic("Cannot destructure list of incorrect length")
              ELSE BOk(insert_zip(locals, decl.names, Live(arg.offset, arg.buf)))
         ELSE BPanic("Cannot destructure non-list!")

\* a test that takes every value but Bool(false) and Null for true
if_takes_truthy(v) == ~(v.t = "Bool" /\ ~v.b) /\ v.t # "Null"

\* the test of Expr::If: `if let Value::Bool(true) = ...`
if_takes_true(v) == v.t = "Bool" /\ v.b

\* the deepest nesting of eval calls the model follows
MaxDepth == 12

RECURSIVE eval(_, _, _, _, _, _)
RECURSIVE value_call(_, _, _, _, _)
RECURSIVE eval_all(_, _, _, _, _, _)

\* the expressions of a list evaluated in order, each with the same pending
\* args and locals, each on the state the one before left:
\* [ok |-> "Ok", vals, io], or the first result that is not Ok
eval_all(exprs, prog, args, locals, io, depth) ==
    IF exprs = <<>> THEN [ok |-> "Ok", vals |-> <<>>, io |-> io]
    ELSE LET first == eval(exprs[1], prog, args, locals, io, depth) IN
         IF first.ok # "Ok" THEN first
         ELSE LET rest == eval_all(Tail(exprs), prog, args, locals, first.io, depth) IN
              IF rest.ok # "Ok" THEN rest
              ELSE [ok |-> "Ok", vals |-> <<first.v>> \o rest.vals, io |-> rest.io]

\* the operands evaluated last to first
eval_operands_rev(operands, prog, args, locals, io, depth) ==
    LET rev(s) == [i \in 1..Len(s) |-> s[Len(s) + 1 - i]]
        r == eval_all(rev(operands), prog, args, locals, io, depth)
    IN  IF r.ok # "Ok" THEN r ELSE [r EXCEPT !.vals = rev(r.vals)]

\* the operands of a Builtin: `eval(a).op(eval(b))` evaluates a, then b
eval_operands(operands, prog, args, locals, io, depth) ==
    eval_all(operands, prog, args, locals, io, depth)

\* Value::call
value_call(self, prog, args, io, depth) ==
    IF args # <<>>
    THEN IF self.t = "Func"
         THEN LET bound == call_bind(self.decl, args[1], self.locals) IN
              IF bound.ok # "Ok" THEN RPanic(bound.msg, io)
              ELSE eval(self.body, prog, Tail(args), bound.locals, io, depth)
         ELSE RPanic("Too many arguments!", io)
    ELSE ROk(self, io)

\* a call that evaluates the callee's body in the caller's locals
eval_call_dynamic(name, call_args, prog, locals, io, depth) ==
    LET local == MapGet(locals, name)
        global == MapGet(prog, name)
    IN  IF local # None
        THEN IF local[1].t = "Func" /\ call_args # <<>>
             THEN LET bound == call_bind(local[1].decl, call_args[1], locals) IN
                  IF bound.ok # "Ok" THEN RPanic(bound.msg, io)
                  ELSE eval(local[1].body, prog, Tail(call_args), bound.locals, io, depth)
             ELSE value_call(local[1], prog, call_args, io, depth)
        ELSE IF global # None
        THEN eval(global[1], prog, call_args, locals, io, depth)
        ELSE RPanic("Could not find item", io)

\* the Expr::Call arm of eval, once the arguments are evaluated
eval_call(name, call_args, prog, locals, io, depth) ==
    LET local == MapGet(locals, name)
        global == MapGet(prog, name)
    IN  IF local # None THEN value_call(local[1], prog, call_args, io, depth)
        ELSE IF global # None
        THEN eval(global[1], prog, call_args, EmptyMap, io, depth)
        ELSE RPanic("Could not find item", io)

eval(expr, prog, args, locals, io, depth) ==
    IF depth > MaxDepth THEN ROut("depth", io)
    ELSE
    CASE expr.e = "Literal" ->
            (CASE expr.l = "Num" -> ROk(VNum(expr.n), io)
               [] expr.l = "Str" ->
                    IF Len(expr.s) = 1 THEN ROk(VChar(expr.s[1]), io)
                    ELSE ROk(VList(0, [i \in 1..Len(expr.s) |-> VChar(expr.s[i])]), io)
               [] expr.l = "Bool" -> ROk(VBool(expr.b), io)
               [] expr.l = "Null" -> ROk(VNull, io))
      [] expr.e = "If" ->
            LET p == eval(expr.p, prog, args, locals, io, depth + 1) IN
            IF p.ok # "Ok" THEN p
            ELSE IF if_takes_true(p.v)
                 THEN eval(expr.te, prog, args, locals, p.io, depth + 1)
                 ELSE eval(expr.fe, prog, args, locals, p.io, depth + 1)
      [] expr.e = "Let" ->
            LET val == eval(expr.x, prog, args, locals, io, depth + 1) IN
            IF val.ok # "Ok" THEN val
            ELSE LET bound == let_bind(expr.decl, val.v, locals) IN
                 IF bound.ok # "Ok" THEN RPanic(bound.msg, val.io)
                 ELSE eval(expr.then, prog, args, bound.locals, val.io, depth + 1)
      [] expr.e = "Builtin" ->
            LET ops == eval_operands(expr.operands, prog, args, locals, io, depth + 1) IN
            IF ops.ok # "Ok" THEN ops
            ELSE apply_builtin(expr.op, ops.vals, ops.io)
      [] expr.e = "Call" ->
            LET as == eval_all(expr.cargs, prog, args, locals, io, depth + 1) IN
            IF as.ok # "Ok" THEN as
            ELSE eval_call(expr.name, as.vals \o args, prog, locals, as.io, depth + 1)
      [] expr.e = "Closure" ->
            IF args # <<>>
            THEN LET bound == closure_bind(expr.decl, args[1], locals) IN
                 IF bound.ok # "Ok" THEN RPanic(bound.msg, io)
                 ELSE eval(expr.body, prog, Tail(args), bound.locals, io, depth + 1)
            ELSE ROk(VFunc(locals, expr.decl, expr.body), io)

\* run_prog: main evaluated with the current counter as its one argument
run_prog(prog, io) ==
    LET main == MapGet(prog, "main") IN
    IF main # None
    THEN eval(main[1], prog, <<VUniverse(io.next)>>, EmptyMap, io, 0)
    ELSE [ok |-> "Err", err |-> Error("NoMain", ""), io |-> io]

\* ------------------------------------------------------------------------
\* The universe counter under any sequence of __input and __print
\* operations of one process (SpecIO)
\* ------------------------------------------------------------------------

\* the operations a process is followed for
MaxUniverse == 3

Line1 == <<"h", "i", "\n">>
Line2 == <<"\n">>

IoNow == IoState(NEXT_UNIVERSE, stdin, stdout, effects)

Outcome(r) ==
    IF r.ok = "Ok" THEN [ok |-> "Ok", v |-> r.v] ELSE [ok |-> r.ok, msg |-> r.msg]

\* values __input and __print are applied to
SelfValues ==
    {VUniverse(n) : n \in 0..MaxUniverse}
    \cup {VNull, VNum(0), VBool(TRUE), VChar("a"), VList(0, <<VUniverse(0)>>)}

PrintedValues ==
    {VNum(1), VChar("a"), VList(0, <<>>), VList(1, <<VChar("a"), VChar("b")>>),
     VList(0, <<VNum(1), VNull>>), VUniverse(0)}

InitIO ==
    /\ tokens = <<>>
    /\ parsed = NotYet
    /\ NEXT_UNIVERSE = 0
    /\ stdin \in {<<>>, <<Line1>>, <<Line1, Line2>>}
    /\ stdout = <<>>
    /\ effects = <<>>
    /\ job = NotYet
    /\ result = NotYet

\* a panic ends the process
Alive == result.ok # "Panic" /\ NEXT_UNIVERSE < MaxUniverse

\* __input applied to a value
DoInput ==
    /\ Alive
    /\ \E self \in SelfValues :
         LET r == input(self, IoNow) IN
         /\ job' = [ok |-> "Call", op |-> "input", self |-> self, other |-> VNull]
         /\ result' = Outcome(r)
         /\ NEXT_UNIVERSE' = r.io.next
         /\ stdin' = r.io.stdin
         /\ stdout' = r.io.stdout
         /\ effects' = r.io.effects
    /\ UNCHANGED parseVars

\* __print applied to two values
DoPrint ==
    /\ Alive
    /\ \E self \in SelfValues, other \in PrintedValues :
         LET r == print(self, other, IoNow) IN
         /\ job' = [ok |-> "Call", op |-> "print", self |-> self, other |-> other]
         /\ result' = Outcome(r)
         /\ NEXT_UNIVERSE' = r.io.next
         /\ stdin' = r.io.stdin
         /\ stdout' = r.io.stdout
         /\ effects' = r.io.effects
    /\ UNCHANGED parseVars

NextIO == DoInput \/ DoPrint

SpecIO == InitIO /\ [][NextIO]_vars

\* C3: an __input or __print applied to Universe(n) with n the current
\* counter performs its effect, moves the counter to n + 1 and hands back
\* Universe(n + 1) (as the result of __print, as element 0 of the two-element
\* list of __input); no operation ever lowers the counter.
C3_MatchingUniverseAdvances ==
    [][/\ NEXT_UNIVERSE' >= NEXT_UNIVERSE
       /\ job'.self = VUniverse(NEXT_UNIVERSE) =>
            /\ result'.ok = "Ok"
            /\ NEXT_UNIVERSE' = NEXT_UNIVERSE + 1
            /\ effects' = Append(effects, [op |-> job'.op, tag |-> NEXT_UNIVERSE])
            /\ job'.op = "print" =>
                 /\ result'.v = VUniverse(NEXT_UNIVERSE + 1)
                 /\ stdout' = Append(stdout, [line |-> to_str(job'.other)])
                 /\ stdin' = stdin
            /\ job'.op = "input" =>
                 /\ result'.v.t = "List"
                 /\ result'.v.offset = 0
                 /\ Len(result'.v.buf) = 2
                 /\ result'.v.buf[1] = VUniverse(NEXT_UNIVERSE + 1)
                 /\ stdout' = stdout
                 /\ stdin' = IF stdin = <<>> THEN <<>> ELSE Tail(stdin)
      ]_vars

\* a second effect of the process, an __input, has succeeded
C3_Witness ==
    /\ result.ok = "Ok"
    /\ job.op = "input"
    /\ NEXT_UNIVERSE = 2
    /\ Len(effects) = 2

\* C4: an __input or __print applied to anything but Universe(n) with n the
\* current counter panics with the invalid-universe message, and reads no
\* line and writes no line.
C4_MismatchIsFatal ==
    [][job'.self # VUniverse(NEXT_UNIVERSE) =>
            /\ result'.ok = "Panic"
            /\ result'.msg = "Invalid universe value!"
            /\ stdin' = stdin
            /\ stdout' = stdout
            /\ effects' = effects
      ]_vars

\* a stale universe was presented to __input after an effect had succeeded
C4_Witness ==
    /\ result.ok = "Panic"
    /\ job.op = "input"
    /\ job.self = VUniverse(0)
    /\ Len(effects) = 1

\* ------------------------------------------------------------------------
\* The evaluator applied to expressions, and run_prog applied to programs
\* (SpecEval).  A job is one call of eval or of run_prog; the values, the
\* locals and the pending args of the eval jobs are drawn from bounded sets.
\* ------------------------------------------------------------------------

\* the longest list buffer of the values given to eval
MaxLen == 3

CallVar(name) == Call(name, <<>>)

\* a closure that, evaluated with no pending argument, hands back the locals
\* it is evaluated in (as the captured locals of the Func it makes)
Probe == Closure(Single("_"), LitNull)

ListElems == {VNum(1), VChar("a"), VNull}

ListValues ==
    {VList(o, b) : <<o, b>> \in {ob \in (0..MaxLen) \X SeqsUpTo(ListElems, MaxLen) :
                                    ob[1] <= Len(ob[2])}}

NonListValues ==
    {VNull, VBool(TRUE), VBool(FALSE), VNum(0), VNum(1), VChar("a"),
     VUniverse(0), VFunc(EmptyMap, Single("x"), LitNull)}

NameLists == {<<>>, <<"a">>, <<"a", "b">>, <<"a", "b", "c">>}

EvalJob(expr, prog, args, locals) ==
    [ok |-> "Eval", expr |-> expr, prog |-> prog, args |-> args, locals |-> locals]
RunJob(prog) == [ok |-> "Run", prog |-> prog]

\* If: the condition and both branches write themselves to standard output
\* through __debug, which needs no universe
IfJobs ==
    {EvalJob(If(Builtin("Debug", <<CallVar("x")>>),
                Builtin("Debug", <<LitNum(1)>>),
                Builtin("Debug", <<LitNum(2)>>)),
             EmptyMap, <<>>, <<<<"x", v>>>>) :
        v \in NonListValues \cup {VList(0, <<>>), VList(0, <<VBool(TRUE)>>),
                                  VList(1, <<VBool(TRUE)>>)}}
    \cup {EvalJob(If(Builtin("Debug", <<c>>),
                     Builtin("Debug", <<LitNum(1)>>),
                     Builtin("Debug", <<LitNum(2)>>)),
                  EmptyMap, args, EmptyMap) :
            c \in {LitBool(TRUE), LitBool(FALSE), LitNull, LitNum(1),
                   LitStr(<<>>), LitStr(<<"a">>)},
            args \in {<<>>, <<VNum(7)>>}}

\* Destructure at its three sites: Let, a Closure with a pending argument,
\* and Value::call on a Func held by a local
DestructureJobs ==
    {EvalJob(Let(Destructure(names), CallVar("x"), Probe),
             EmptyMap, <<>>, <<<<"x", v>>>>) :
        names \in NameLists, v \in ListValues \cup NonListValues}
    \cup {EvalJob(Closure(Destructure(names), Probe),
                  EmptyMap, <<v>>, <<<<"x", v>>>>) :
            names \in NameLists, v \in ListValues \cup NonListValues}
    \cup {EvalJob(Call("f", <<CallVar("x")>>),
                  EmptyMap, <<>>,
                  << <<"x", v>>,
                     <<"f", VFunc(<<<<"x", v>>>>, Destructure(names), Probe)>> >>) :
            names \in NameLists, v \in ListValues \cup NonListValues}

\* a callee applied to 0, 1 or 2 arguments: a local holding a value, and a
\* global whose body is a literal, a builtin or a closure
CalleeGlobals ==
    << <<"lit", LitNum(5)>>,
       <<"str", LitStr(<<"a", "b">>)>>,
       <<"wrapped", Builtin("Wrap", <<LitNull>>)>>,
       <<"id", Closure(Single("x"), CallVar("x"))>> >>

CallJobs ==
    {EvalJob(Call("x", cargs), CalleeGlobals, args, <<<<"x", v>>>>) :
        v \in NonListValues \cup {VList(0, <<>>), VList(1, <<VNum(1)>>)},
        cargs \in {<<>>, <<LitNum(1)>>},
        args \in {<<>>, <<VNum(7)>>}}
    \cup {EvalJob(Call(g, cargs), CalleeGlobals, args, EmptyMap) :
            g \in {"lit", "str", "wrapped", "id"},
            cargs \in {<<>>, <<LitNum(1)>>, <<LitNum(1), LitNum(2)>>},
            args \in {<<>>, <<VNum(7)>>}}

\* closures made in one scope and applied in another: the closure is made
\* by a Closure expression in the job's locals, or handed back by the
\* global mk; the caller then rebinds y before it applies f
ScopeGlobals ==
    << <<"mk", Closure(Single("y"), Closure(Single("x"), Probe))>>,
       <<"env", Probe>>,
       <<"env1", Closure(Single("x"), Probe)>>,
       <<"y", LitNum(9)>> >>

ScopeLocals ==
    {EmptyMap, <<<<"y", VNum(1)>>>>, << <<"y", VNum(1)>>, <<"z", VNull>> >>}

ScopeJobs ==
    {EvalJob(Let(Single("f"), Closure(decl, Probe),
                 Let(Single("y"), LitNum(2), Call("f", <<LitStr(<<"a", "b">>)>>))),
             ScopeGlobals, <<>>, locals) :
        decl \in {Single("x"), Single("y"), Destructure(<<"a", "b">>)},
        locals \in ScopeLocals}
    \cup {EvalJob(Let(Single("f"), Call("mk", <<LitNum(1)>>),
                      Let(Single("y"), LitNum(2), Call("f", <<LitStr(<<"a", "b">>)>>))),
                  ScopeGlobals, <<>>, locals) :
            locals \in ScopeLocals}
    \cup {EvalJob(Let(Single("z"), LitNum(2), Call(g[1], g[2])),
                  ScopeGlobals, <<>>, locals) :
            g \in {<<"env", <<>> >>, <<"env1", <<LitNum(3)>> >>},
            locals \in ScopeLocals}

\* programs for run_prog: main is `@ -> body`, and the body reaches its
\* effects through builtin operands, call arguments, let and if
Atom(x) == {CallVar(x), LitNum(1)}

Effect(x) ==
    {Builtin("Print", <<CallVar(x), LitNum(1)>>),
     Builtin("Print", <<CallVar(x), LitNum(2)>>),
     Builtin("Input", <<CallVar(x)>>),
     Builtin("Head", <<Builtin("Input", <<CallVar(x)>>)>>)}

Body1(x) == Atom(x) \cup Effect(x)

Body2 ==
    {Builtin(op, <<a, b>>) : op \in {"Print", "Cat", "Eq"}, a \in Body1("@"), b \in Body1("@")}
    \cup {Call("g", <<a, b>>) : a \in Body1("@"), b \in Body1("@")}
    \cup {Let(Single("u"), a, b) : a \in Body1("@"), b \in Body1("@") \cup Body1("u")}
    \cup {If(LitBool(c), a, b) : c \in BOOLEAN, a \in Effect("@"), b \in Effect("@")}

Body3 == {Builtin("Print", <<a, LitNum(2)>>) : a \in Body2}

RunGlobals ==
    << <<"g", Closure(Single("a"), Closure(Single("b"),
                 Builtin("Print", <<CallVar("b"), CallVar("a")>>)))>> >>

RunJobs ==
    {RunJob(MapInsert(RunGlobals, "main", Closure(Single("@"), body))) :
        body \in Body1("@") \cup Body2 \cup Body3}
    \cup {RunJob(RunGlobals)}

\* the counter values a run may start from (earlier runs of the same
\* process leave the counter where they stopped)
MaxStart == 1

InitEval ==
    /\ tokens = <<>>
    /\ parsed = NotYet
    /\ NEXT_UNIVERSE \in 0..MaxStart
    /\ stdin \in {<<>>, <<Line1>>}
    /\ stdout = <<>>
    /\ effects = <<>>
    /\ job \in IfJobs \cup DestructureJobs \cup CallJobs \cup ScopeJobs \cup RunJobs
    /\ result = NotYet

\* eval applied to the job's expression
EvalExpr ==
    /\ result = NotYet
    /\ job.ok = "Eval"
    /\ LET r == eval(job.expr, job.prog, job.args, job.locals, IoNow, 0) IN
       /\ result' = Outcome(r)
       /\ NEXT_UNIVERSE' = r.io.next
       /\ stdin' = r.io.stdin
       /\ stdout' = r.io.stdout
       /\ effects' = r.io.effects
    /\ UNCHANGED <<parseVars, job>>

\* what run_prog hands back, with the counter value it loaded
RunOutcome(r, start) ==
    CASE r.ok = "Ok" -> [ok |-> "Ok", v |-> r.v, start |-> start]
      [] r.ok = "Err" -> [ok |-> "Err", err |-> r.err, start |-> start]
      [] OTHER -> [ok |-> r.ok, msg |-> r.msg, start |-> start]

\* run_prog applied to the job's program
RunProg ==
    /\ result = NotYet
    /\ job.ok = "Run"
    /\ LET r == run_prog(job.prog, IoNow) IN
       /\ result' = RunOutcome(r, NEXT_UNIVERSE)
       /\ NEXT_UNIVERSE' = r.io.next
       /\ stdin' = r.io.stdin
       /\ stdout' = r.io.stdout
       /\ effects' = r.io.effects
    /\ UNCHANGED <<parseVars, job>>

NextEval == EvalExpr \/ RunProg

SpecEval == InitEval /\ [][NextEval]_vars

\* no evaluation of the jobs is cut short by MaxDepth
NoDepthCut == result.ok # "Out"

\* ------------------------------------------------------------------------
\* Claims about the evaluator, checked under SpecEval
\* ------------------------------------------------------------------------

IsPrefix(s, t) == Len(s) <= Len(t) /\ SubSeq(t, 1, Len(s)) = s

\* the effects and the output of io are the beginning of those of the step
BeginsStep(io) == IsPrefix(io.effects, effects') /\ IsPrefix(io.stdout, stdout')

\* what the walk reaches first, and second, inside the body of main
FirstReached(body) ==
    CASE body.e = "Builtin" -> <<body.operands[1]>>
      [] body.e = "Call" /\ body.cargs # <<>> -> <<body.cargs[1]>>
      [] body.e = "Let" -> <<body.x>>
      [] body.e = "If" -> <<body.p>>
      [] OTHER -> <<>>

SecondReached(body) ==
    CASE body.e = "Builtin" /\ Len(body.operands) = 2 -> <<body.operands[2]>>
      [] body.e = "Call" /\ Len(body.cargs) = 2 -> <<body.cargs[2]>>
      [] OTHER -> <<>>

\* C5: in a run that starts with the counter at c0, the k-th effect
\* performed carries the tag c0 + k - 1, and the effects and the output of
\* the run begin with those of the sub-expression the depth-first,
\* left-to-right walk reaches first (first operand, first call argument,
\* bound expression, condition) evaluated on its own, and then with those of
\* the second operand or argument evaluated on the state the first one left.
C5_EffectsInEvaluationOrder ==
    [][(job.ok = "Run" /\ MapGet(job.prog, "main") # None) =>
         LET body == MapGet(job.prog, "main")[1].body
             main_locals == <<<<"@", VUniverse(NEXT_UNIVERSE)>>>>
         IN  /\ \A k \in 1..Len(effects') : effects'[k].tag = NEXT_UNIVERSE + k - 1
             /\ NEXT_UNIVERSE' >= NEXT_UNIVERSE + Len(effects')
             /\ Len(stdout') = Cardinality({k \in 1..Len(effects') : effects'[k].op = "print"})
             /\ \A a \in {FirstReached(body)[i] : i \in 1..Len(FirstReached(body))} :
                  LET ra == eval(a, job.prog, <<>>, main_locals, IoNow, 0) IN
                  /\ BeginsStep(ra.io)
                  /\ ra.ok # "Ok" => /\ result'.ok = ra.ok
                                      /\ effects' = ra.io.effects
                                      /\ stdout' = ra.io.stdout
                  /\ ra.ok = "Ok" =>
                       \A b \in {SecondReached(body)[i] : i \in 1..Len(SecondReached(body))} :
                          LET rb == eval(b, job.prog, <<>>, main_locals, ra.io, 0) IN
                          /\ BeginsStep(rb.io)
                          /\ rb.ok # "Ok" => /\ result'.ok = rb.ok
                                              /\ effects' = rb.io.effects
                                              /\ stdout' = rb.io.stdout
      ]_vars

\* `__print (let u = __print @ 1 in __print u 2) 2` started at counter 1:
\* three effects, three lines
C5_Witness ==
    /\ job.ok = "Run"
    /\ result.ok = "Ok"
    /\ result.start = 1
    /\ Len(effects) = 3
    /\ stdout = <<[line |-> <<"1">>], [line |-> <<"2">>], [line |-> <<"2">>]>>

\* the names and the value of the job's destructuring
DestructuredNames ==
    CASE job.expr.e = "Call" -> MapGet(job.locals, "f")[1].decl.names
      [] OTHER -> job.expr.decl.names

DestructuredValue == MapGet(job.locals, "x")[1]

\* C6: binding Destructure(names) to a value, in Let, in a Closure with a
\* pending argument and in Value::call, succeeds exactly when the value is
\* a List with Len(buf) - offset = Len(names), and then names[i] is bound to
\* buf[offset + i] on top of the locals that were there; any other value is
\* fatal, with the message of its case.
C6_DestructureIffLiveLength ==
    (job \in DestructureJobs /\ result # NotYet) =>
        LET names == DestructuredNames
            v == DestructuredValue
        IN  IF v.t = "List" /\ Len(v.buf) - v.offset = Len(names)
            THEN /\ result.ok = "Ok"
                 /\ result.v.t = "Func"
                 /\ \A i \in 1..Len(names) :
                      MapGet(result.v.locals, names[i]) = Some(v.buf[v.offset + i])
                 /\ MapGet(result.v.locals, "x") = Some(v)
            ELSE /\ result.ok = "Panic"
                 /\ result.msg = IF v.t = "List"
                                 THEN "Cannot destructure list of incorrect length"
                                 ELSE "Cannot destructure non-list!"

\* Value::call binds |a b| to the live slice of a three-element buffer at offset 1
C6_Witness ==
    /\ job \in DestructureJobs
    /\ job.expr.e = "Call"
    /\ result.ok = "Ok"
    /\ DestructuredValue = VList(1, <<VNull, VNum(1), VChar("a")>>)
    /\ MapGet(result.v.locals, "b") = Some(VChar("a"))

\* the value the callee name of a call job stands for: the local's value,
\* or what the global's body evaluates to on its own
CalleeValue ==
    IF MapGet(job.locals, job.expr.name) # None
    THEN MapGet(job.locals, job.expr.name)[1]
    ELSE eval(MapGet(job.prog, job.expr.name)[1], job.prog, <<>>, EmptyMap,
              IoState(0, <<>>, <<>>, <<>>), 0).v

RemainingArgs == Len(job.expr.cargs) + Len(job.args)

\* C7: a call whose callee stands for a non-function value is fatal with
\* "Too many arguments!" when at least one argument remains, whether the
\* callee is a local or a global; with no argument the value is handed back
\* unchanged.
C7_TooManyArgumentsIsFatal ==
    (job \in CallJobs /\ result # NotYet) =>
        /\ (CalleeValue.t # "Func" /\ RemainingArgs > 0) =>
              /\ result.ok = "Panic"
              /\ result.msg = "Too many arguments!"
        /\ RemainingArgs = 0 =>
              /\ result.ok = "Ok"
              /\ result.v = CalleeValue

\* the part of C7 that holds: a local holding a non-function value
C7_LocalTooManyArgumentsIsFatal ==
    (job \in CallJobs /\ result # NotYet /\ MapGet(job.locals, job.expr.name) # None) =>
        /\ (CalleeValue.t # "Func" /\ RemainingArgs > 0) =>
              /\ result.ok = "Panic"
              /\ result.msg = "Too many arguments!"
        /\ RemainingArgs = 0 =>
              /\ result.ok = "Ok"
              /\ result.v = CalleeValue

\* the global `lit` (body 5) called with one argument hands back 5
C7_GlobalDiscardsArguments ==
    /\ job \in CallJobs
    /\ job.expr = Call("lit", <<LitNum(1)>>)
    /\ job.args = <<>>
    /\ result = [ok |-> "Ok", v |-> VNum(5)]

ScopeNames == {"a", "b", "f", "x", "y", "z", "_"}

\* the locals in effect where the closure applied by a scope job was made
\* (the job's own locals, or the y bound by the global mk from empty
\* locals), and the binding of its parameters to the argument "ab"
CapturedLocals ==
    IF job.expr.x.e = "Closure" THEN job.locals ELSE <<<<"y", VNum(1)>>>>

ParamBinding(decl, name) ==
    CASE decl.d = "Single" /\ decl.name = name ->
            Some(VList(0, <<VChar("a"), VChar("b")>>))
      [] decl.d = "Destructure" /\ name = "a" -> Some(VChar("a"))
      [] decl.d = "Destructure" /\ name = "b" -> Some(VChar("b"))
      [] OTHER -> None

AppliedDecl ==
    IF job.expr.x.e = "Closure" THEN job.expr.x.decl ELSE Single("x")

\* C8: the body of an applied Func sees, for every name, the binding of its
\* own parameters or else the binding of the locals where its Closure was
\* evaluated; what the caller bound before the application (f, y = 2) is
\* not seen.  The body of a global sees its own parameters and nothing else.
C8_LexicalScope ==
    (job \in ScopeJobs /\ result # NotYet) =>
        /\ result.ok = "Ok"
        /\ result.v.t = "Func"
        /\ job.expr.decl = Single("f") =>
             \A name \in ScopeNames :
                MapGet(result.v.locals, name) =
                    IF ParamBinding(AppliedDecl, name) # None
                    THEN ParamBinding(AppliedDecl, name)
                    ELSE MapGet(CapturedLocals, name)
        /\ job.expr.decl = Single("z") =>
             result.v.locals = IF job.expr.then.name = "env" THEN EmptyMap
                               ELSE <<<<"x", VNum(3)>>>>

\* a closure made where y = 1 and applied where y = 2 sees y = 1
C8_Witness ==
    /\ job \in ScopeJobs
    /\ job.expr.x = Closure(Single("x"), Probe)
    /\ MapGet(job.locals, "y") = Some(VNum(1))
    /\ result.ok = "Ok"
    /\ MapGet(result.v.locals, "y") = Some(VNum(1))
    /\ MapGet(result.v.locals, "f") = None

\* C9: If evaluates its condition once and then one branch: the first
\* when the condition's value is Bool(true), the second for any other
\* value; the result is that branch's value and no condition value is fatal.
C9_IfTakesThenIffTrue ==
    (job \in IfJobs /\ result # NotYet) =>
        /\ result.ok = "Ok"
        /\ Len(stdout) = 2
        /\ job.locals # EmptyMap => stdout[1].debug = MapGet(job.locals, "x")[1]
        /\ stdout[2].debug = VNum(IF stdout[1].debug = VBool(TRUE) THEN 1 ELSE 2)
        /\ result.v = stdout[2].debug

\* a Func as the condition takes the else branch
C9_Witness ==
    /\ job \in IfJobs
    /\ result.ok = "Ok"
    /\ stdout[1].debug.t = "Func"
    /\ result.v = VNum(2)

\* ------------------------------------------------------------------------
\* The operations of Value applied to values (SpecValue)
\* ------------------------------------------------------------------------

\* lists as literals, __cat and __wrap build them and __tail moves their
\* offset: every buffer up to MaxLen over two element values, at every
\* offset, and lists of lists
FlatLists ==
    {VList(o, b) : <<o, b>> \in {ob \in (0..MaxLen) \X SeqsUpTo({VNum(1), VChar("a")}, MaxLen) :
                                    ob[1] <= Len(ob[2])}}

NestedLists ==
    {VList(0, <<VList(0, <<>>)>>),
     VList(0, <<VList(1, <<VNum(1)>>)>>),
     VList(0, <<VList(1, <<VNum(1), VChar("a")>>)>>),
     VList(1, <<VNull, VList(0, <<VChar("a")>>)>>)}

OperandValues == FlatLists \cup NestedLists \cup NonListValues

ValueJob(op, a, b) == [ok |-> "Value", op |-> op, a |-> a, b |-> b]

InitValue ==
    /\ tokens = <<>>
    /\ parsed = NotYet
    /\ NEXT_UNIVERSE = 0
    /\ stdin = <<>>
    /\ stdout = <<>>
    /\ effects = <<>>
    /\ job \in {ValueJob(op, a, b) : op \in {"Eq", "Cat"},
                                      a \in OperandValues, b \in OperandValues}
              \cup {ValueJob("Print", VUniverse(0), b) : b \in OperandValues}
    /\ result = NotYet

\* __eq applied to the two operands
ApplyEq ==
    /\ result = NotYet
    /\ job.op = "Eq"
    /\ result' = Outcome(apply_builtin("Eq", <<job.a, job.b>>, IoNow))
    /\ UNCHANGED <<parseVars, ioVars, job>>

\* __cat applied to the two operands
ApplyCat ==
    /\ result = NotYet
    /\ job.op = "Cat"
    /\ result' = Outcome(apply_builtin("Cat", <<job.a, job.b>>, IoNow))
    /\ UNCHANGED <<parseVars, ioVars, job>>

\* __print applied to the current universe and the second operand
ApplyPrint ==
    /\ result = NotYet
    /\ job.op = "Print"
    /\ LET r == apply_builtin("Print", <<job.a, job.b>>, IoNow) IN
       /\ result' = Outcome(r)
       /\ NEXT_UNIVERSE' = r.io.next
       /\ stdin' = r.io.stdin
       /\ stdout' = r.io.stdout
       /\ effects' = r.io.effects
    /\ UNCHANGED <<parseVars, job>>

NextValue == ApplyEq \/ ApplyCat \/ ApplyPrint

SpecValue == InitValue /\ [][NextValue]_vars

\* ------------------------------------------------------------------------
\* Claims about the operations of Value, checked under SpecValue
\* ------------------------------------------------------------------------

\* the live slices have the same length and are pairwise __eq
LiveSlicesEq(a, b) ==
    LET la == Live(a.offset, a.buf)
        lb == Live(b.offset, b.buf)
    IN  Len(la) = Len(lb) /\ \A i \in 1..Len(la) : eq(la[i], lb[i])

\* C10: __eq of two lists is true exactly when their live slices have the
\* same length and are pairwise __eq, whatever the offsets and the buffers;
\* __eq of two values of different variants is false, and never fatal.
C10_ListEqComparesLiveSlices ==
    (job.ok = "Value" /\ job.op = "Eq" /\ result # NotYet) =>
        /\ result.ok = "Ok"
        /\ (job.a.t = "List" /\ job.b.t = "List") =>
              result.v = VBool(LiveSlicesEq(job.a, job.b))
        /\ job.a.t # job.b.t => result.v = VBool(FALSE)

\* the part of C10 that holds: lists at offset 0, and different variants
C10_EqFromOffsetZero ==
    (job.ok = "Value" /\ job.op = "Eq" /\ result # NotYet) =>
        /\ result.ok = "Ok"
        /\ (job.a.t = "List" /\ job.b.t = "List" /\ job.a.offset = 0 /\ job.b.offset = 0) =>
              result.v = VBool(LiveSlicesEq(job.a, job.b))
        /\ job.a.t # job.b.t => result.v = VBool(FALSE)

\* `__eq (__tail [1, "a"]) ["a"]` is false though both live slices are ["a"]
C10_EqReadsDeadElements ==
    /\ job.ok = "Value"
    /\ job.op = "Eq"
    /\ job.a = VList(1, <<VNum(1), VChar("a")>>)
    /\ job.b = VList(0, <<VChar("a")>>)
    /\ result = [ok |-> "Ok", v |-> VBool(FALSE)]

\* C11: __eq is symmetric: for every pair of operands, of any variants and
\* with any offsets, __eq a b is the Bool that __eq b a is.
C11_EqSymmetric ==
    (job.ok = "Value" /\ job.op = "Eq" /\ result # NotYet) =>
        /\ result.ok = "Ok"
        /\ result.v.t = "Bool"
        /\ result = Outcome(apply_builtin("Eq", <<job.b, job.a>>, IoNow))

\* two lists of the same live length at different offsets, compared
C11_Witness ==
    /\ job.ok = "Value"
    /\ job.op = "Eq"
    /\ job.a = VList(1, <<VNum(1), VChar("a")>>)
    /\ job.b = VList(2, <<VChar("a"), VNum(1), VNum(1)>>)
    /\ result.ok = "Ok"

\* C13: __cat of two lists is the list at offset 0 of the live slice of
\* the first followed by the live slice of the second; of a list and a
\* non-list, the live slice with the other value as one more element at the
\* end (list first) or at the front (list second); of two non-lists, Null.
\* The operands are as they were.
C13_CatJoinsLiveSlices ==
    (job.ok = "Value" /\ job.op = "Cat" /\ result # NotYet) =>
        /\ result.ok = "Ok"
        /\ (job.a.t = "List" /\ job.b.t = "List") =>
              /\ result.v.t = "List"
              /\ result.v.offset = 0
              /\ result.v.buf = Live(job.a.offset, job.a.buf) \o Live(job.b.offset, job.b.buf)
              /\ Len(Live(job.a.offset, job.a.buf)) = 0 =>
                    result.v.buf = Live(job.b.offset, job.b.buf)
              /\ Len(Live(job.b.offset, job.b.buf)) = 0 =>
                    result.v.buf = Live(job.a.offset, job.a.buf)
        /\ (job.a.t = "List" /\ job.b.t # "List") =>
              result.v = VList(0, Live(job.a.offset, job.a.buf) \o <<job.b>>)
        /\ (job.a.t # "List" /\ job.b.t = "List") =>
              result.v = VList(0, <<job.a>> \o Live(job.b.offset, job.b.buf))
        /\ (job.a.t # "List" /\ job.b.t # "List") => result.v = VNull

\* two lists with dead elements joined: only the live ones are copied
C13_Witness ==
    /\ job.ok = "Value"
    /\ job.op = "Cat"
    /\ job.a = VList(1, <<VNum(1), VChar("a")>>)
    /\ job.b = VList(2, <<VChar("a"), VNum(1), VNum(1)>>)
    /\ result = [ok |-> "Ok", v |-> VList(0, <<VChar("a"), VNum(1)>>)]

AllChars(live) == \A i \in 1..Len(live) : live[i].t = "Char"

Bracketed(live) ==
    <<"[">> \o JoinStr([i \in 1..Len(live) |-> to_str(live[i])], <<",", " ">>) \o <<"]">>

\* the line __print wrote for the job's second operand
PrintedLine == stdout[1].line

\* C14 as stated: a list whose live elements are all Char, the list with no
\* live element included, is written as those characters and no brackets;
\* every other list as '[' + its elements' renderings joined by ', ' + ']'.
C14_CharListsRenderBare ==
    (job.ok = "Value" /\ job.op = "Print" /\ result # NotYet /\ job.b.t = "List") =>
        LET live == Live(job.b.offset, job.b.buf) IN
        /\ result.ok = "Ok"
        /\ PrintedLine = IF AllChars(live) THEN [i \in 1..Len(live) |-> live[i].c]
                         ELSE Bracketed(live)

\* C14 amended: a list with at least one live element, all of them Char, is
\* written as those characters and no brackets; every other list, the list
\* with no live element included, as '[' + its elements' renderings joined
\* by ', ' + ']' (so the empty list is written `[]`).
C14_NonEmptyCharListsRenderBare ==
    (job.ok = "Value" /\ job.op = "Print" /\ result # NotYet /\ job.b.t = "List") =>
        LET live == Live(job.b.offset, job.b.buf) IN
        /\ result.ok = "Ok"
        /\ PrintedLine = IF Len(live) > 0 /\ AllChars(live)
                         THEN [i \in 1..Len(live) |-> live[i].c]
                         ELSE Bracketed(live)

\* a list of two Chars with no live element is written `[]`
C14_Witness ==
    /\ job.ok = "Value"
    /\ job.op = "Print"
    /\ job.b = VList(2, <<VChar("a"), VChar("a")>>)
    /\ result.ok = "Ok"
    /\ PrintedLine = <<"[", "]">>

\* ------------------------------------------------------------------------
\* Lists built by sequences of literal, __wrap, __cat, __tail and __input
\* (SpecList).  job.a is the value being worked on, job.b another value
\* that was bound to it earlier (`let b = a`) and may hold the same buffer.
\* ------------------------------------------------------------------------

RECURSIVE Size(_)
RECURSIVE SizeAll(_)

\* the number of values in v, its dead elements included
Size(v) == IF v.t = "List" THEN 1 + SizeAll(v.buf) ELSE 1

SizeAll(vs) == IF vs = <<>> THEN 0 ELSE Size(vs[1]) + SizeAll(Tail(vs))

\* __wrap and __cat are followed while their result holds at most this many values
MaxSize == MaxLen

ListLiterals == {LitNum(1), LitStr(<<>>), LitStr(<<"a", "b">>)}

ListJob(a, b) == [ok |-> "List", a |-> a, b |-> b]

Did(op) == [ok |-> "Ok", op |-> op]

InitList ==
    /\ tokens = <<>>
    /\ parsed = NotYet
    /\ NEXT_UNIVERSE = 0
    /\ stdin = <<Line2>>
    /\ stdout = <<>>
    /\ effects = <<>>
    /\ job = ListJob(VNull, VNull)
    /\ result = NotYet

\* a literal evaluated
TakeLiteral ==
    /\ \E lit \in ListLiterals :
          job' = [job EXCEPT !.a = eval(lit, EmptyMap, <<>>, EmptyMap, IoNow, 0).v]
    /\ result' = Did("Literal")
    /\ UNCHANGED <<parseVars, ioVars>>

\* `let b = a`, once per behaviour
KeepValue ==
    /\ job.b = VNull
    /\ job' = [job EXCEPT !.b = job.a]
    /\ result' = Did("Keep")
    /\ UNCHANGED <<parseVars, ioVars>>

TakeWrap ==
    /\ Size(wrap(job.a)) <= MaxSize
    /\ job' = [job EXCEPT !.a = wrap(job.a)]
    /\ result' = Did("Wrap")
    /\ UNCHANGED <<parseVars, ioVars>>

TakeCat ==
    /\ \E ops \in {<<job.a, job.b>>, <<job.b, job.a>>} :
          /\ Size(cat(ops[1], ops[2])) <= MaxSize
          /\ job' = [job EXCEPT !.a = cat(ops[1], ops[2])]
    /\ result' = Did("Cat")
    /\ UNCHANGED <<parseVars, ioVars>>

TakeTail ==
    /\ job' = [job EXCEPT !.a = tail(job.a)]
    /\ result' = Did("Tail")
    /\ UNCHANGED <<parseVars, ioVars>>

\* __input applied to the current universe, once per behaviour
TakeInput ==
    /\ effects = <<>>
    /\ LET r == input(VUniverse(NEXT_UNIVERSE), IoNow) IN
       /\ job' = [job EXCEPT !.a = r.v]
       /\ result' = Did("Input")
       /\ NEXT_UNIVERSE' = r.io.next
       /\ stdin' = r.io.stdin
       /\ stdout' = r.io.stdout
       /\ effects' = r.io.effects
    /\ UNCHANGED parseVars

NextList == TakeLiteral \/ KeepValue \/ TakeWrap \/ TakeCat \/ TakeTail \/ TakeInput

SpecList == InitList /\ [][NextList]_vars

\* ------------------------------------------------------------------------
\* Claims about lists, checked under SpecList
\* ------------------------------------------------------------------------

RECURSIVE OffsetsInside(_)

\* v, and every list inside v, has offset <= Len(buf)
OffsetsInside(v) ==
    v.t = "List" =>
        /\ v.offset <= Len(v.buf)
        /\ \A i \in 1..Len(v.buf) : OffsetsInside(v.buf[i])

\* C12: every list that literals, __wrap, __cat, __tail and __input produce
\* has offset <= Len(buf); __tail of a list hands back the same buffer at
\* offset min(offset + 1, Len(buf)), so past the end it stays the empty list
\* and is no error; the other value holding that buffer is as it was.
C12_OffsetWithinBuffer ==
    [][/\ OffsetsInside(job'.a)
       /\ OffsetsInside(job'.b)
       /\ (result'.op = "Tail" /\ job.a.t = "List") =>
             /\ job'.a.t = "List"
             /\ job'.a.buf = job.a.buf
             /\ job'.a.offset = IF job.a.offset + 1 <= Len(job.a.buf)
                                THEN job.a.offset + 1 ELSE Len(job.a.buf)
             /\ job.a.offset = Len(job.a.buf) => Live(job'.a.offset, job'.a.buf) = <<>>
             /\ job'.b = job.b
      ]_vars

\* "ab" kept in b, then moved to its end by __tail in a
C12_Witness ==
    /\ job.ok = "List"
    /\ result = Did("Tail")
    /\ job.a = VList(2, <<VChar("a"), VChar("b")>>)
    /\ job.b = VList(0, <<VChar("a"), VChar("b")>>)

\* ------------------------------------------------------------------------
\* Lexer (parse/lex.rs).  The source text is a sequence of one-character
\* strings; the text of a token (an identifier's name, a number, a string)
\* is the sequence of the characters pushed to it.
\* ------------------------------------------------------------------------

unexpected_char(c) == Error("UnexpectedChar", c)

\* what chars.clone().next().unwrap_or('\0') gives at the end of the text
NUL == "NUL"

\* char::is_alphabetic, is_whitespace, is_ascii_punctuation on the
\* characters the texts are written in (lower-case letters; the grave
\* accent is left out of the punctuation)
Alphabetic ==
    {"a", "b", "c", "d", "e", "f", "g", "h", "i", "j", "k", "l", "m",
     "n", "o", "p", "q", "r", "s", "t", "u", "v", "w", "x", "y", "z"}
Whitespace == {" ", "\n", "\t", "\r"}
AsciiPunctuation ==
    {"!", "\"", "#", "$", "%", "&", "'", "(", ")", "*", "+", ",", "-", ".", "/",
     ":", ";", "<", "=", ">", "?", "@", "[", "\\", "]", "^", "_", "{", "|",
     "}", "~"}

is_alphanumeric(c) == c \in Alphabetic \/ IsDigit(c)

\* variant: the quote mark, the comma and the semicolon are ordinary symbols
is_singular_brackets(c) == c \in {"|", "(", ")", "[", "]", "{", "}"}

is_singular(c) == c \in {"|", "(", ")", "[", "]", "{", "}", "'", ",", ";"}

\* the states of the lexer
StDefault == [s |-> "Default"]
StScalar == [s |-> "Scalar"]
StString(text, escaped) == [s |-> "String", text |-> text, escaped |-> escaped]
StIdent(text, scalar, arity) ==
    [s |-> "Ident", text |-> text, scalar |-> scalar, arity |-> arity]
StSym(text, scalar, singular, arity) ==
    [s |-> "Sym", text |-> text, scalar |-> scalar, singular |-> singular,
     arity |-> arity]
StNum(text) == [s |-> "Num", text |-> text]

\* variant: the quote marks counted after the name are dropped
ident_lexeme_no_arity(text, scalar, arity) == Ident(text, scalar, 0)

\* the lexeme of a finished identifier or symbol
ident_lexeme(text, scalar, arity) ==
    CASE text = <<"d", "e", "f">> -> Kw("Def")
      [] text = <<"l", "e", "t">> -> Kw("Let")
      [] text = <<"i", "f">> -> Kw("If")
      [] text = <<"t", "r", "u", "e">> -> Kw("True")
      [] text = <<"f", "a", "l", "s", "e">> -> Kw("False")
      [] text = <<"n", "u", "l", "l">> -> Kw("Null")
      [] OTHER -> Ident(text, scalar, arity)

sym_lexeme(text, scalar, arity) ==
    IF text = <<"-", ">">> THEN Kw("Arrow") ELSE Ident(text, scalar, arity)

\* one turn of the loop on character c: the new state, the token and the
\* error pushed (as sequences of at most one), incr, and whether it breaks
Turn(state, toks, errs, incr, brk) ==
    [state |-> state, toks |-> toks, errs |-> errs, incr |-> incr, brk |-> brk]

lex_match(state, c, range) ==
    CASE state.s = "Default" ->
            (CASE c = "\"" -> Turn(StString(<<>>, FALSE), <<>>, <<>>, TRUE, FALSE)
               [] c = "|" ->
                    Turn(state, <<Token(Kw("Pipe"), [range EXCEPT !.len = @ + 1])>>,
                         <<>>, TRUE, FALSE)
               [] c = "$" -> Turn(StScalar, <<>>, <<>>, TRUE, FALSE)
               [] c \in Whitespace -> Turn(state, <<>>, <<>>, TRUE, FALSE)
               [] c \in Alphabetic \/ c = "_" ->
                    Turn(StIdent(<<c>>, FALSE, 0), <<>>, <<>>, TRUE, FALSE)
               [] IsDigit(c) -> Turn(StNum(<<c>>), <<>>, <<>>, TRUE, FALSE)
               [] c \in AsciiPunctuation ->
                    Turn(StSym(<<c>>, FALSE, is_singular(c), 0), <<>>, <<>>, TRUE, FALSE)
               [] c = NUL -> Turn(state, <<>>, <<>>, TRUE, TRUE)
               [] OTHER -> Turn(state, <<>>, <<at(unexpected_char(c), range)>>, TRUE, FALSE))
      [] state.s = "Scalar" ->
            (CASE c \in Alphabetic -> Turn(StIdent(<<>>, TRUE, 0), <<>>, <<>>, FALSE, FALSE)
               [] c \in AsciiPunctuation ->
                    Turn(StSym(<<>>, TRUE, is_singular(c), 0), <<>>, <<>>, FALSE, FALSE)
               [] OTHER ->
                    Turn(StDefault, <<>>, <<at(unexpected_char("$"), range)>>, FALSE, FALSE))
      [] state.s = "String" ->
            (CASE c = "\"" -> Turn(StDefault, <<Token(StrLx(state.text), range)>>, <<>>,
                                   TRUE, FALSE)
               [] c = NUL -> Turn(state, <<>>, <<>>, TRUE, TRUE)
               [] state.escaped ->
                    Turn(StString(CASE c = "\\" -> Append(state.text, "\\")
                                    [] c = "n" -> Append(state.text, "\n")
                                    [] OTHER -> state.text,
                                  FALSE), <<>>, <<>>, TRUE, FALSE)
               [] c = "\\" -> Turn(StString(state.text, TRUE), <<>>, <<>>, TRUE, FALSE)
               [] OTHER -> Turn(StString(Append(state.text, c), FALSE), <<>>, <<>>,
                                TRUE, FALSE))
      [] state.s = "Ident" ->
            (CASE c = "'" -> Turn([state EXCEPT !.arity = @ + 1], <<>>, <<>>, TRUE, FALSE)
               [] (is_alphanumeric(c) \/ c = "_") /\ state.arity = 0 ->
                    Turn([state EXCEPT !.text = Append(@, c)], <<>>, <<>>, TRUE, FALSE)
               [] OTHER ->
                    Turn(StDefault,
                         <<Token(ident_lexeme(state.text, state.scalar, state.arity), range)>>,
                         <<>>, FALSE, FALSE))
      [] state.s = "Num" ->
            (CASE is_alphanumeric(c) ->
                    Turn([state EXCEPT !.text = Append(@, c)], <<>>, <<>>, TRUE, FALSE)
               [] OTHER -> Turn(StDefault, <<Token(NumLx(state.text), range)>>, <<>>,
                                FALSE, FALSE))
      [] state.s = "Sym" ->
            (CASE c = "'" -> Turn([state EXCEPT !.arity = @ + 1], <<>>, <<>>, TRUE, FALSE)
               [] c \in AsciiPunctuation /\ ~is_singular(c) /\ state.arity = 0
                  /\ ~state.singular ->
                    Turn([state EXCEPT !.text = Append(@, c)], <<>>, <<>>, TRUE, FALSE)
               [] OTHER ->
                    Turn(StDefault,
                         <<Token(sym_lexeme(state.text, state.scalar, state.arity), range)>>,
                         <<>>, FALSE, FALSE))

SrcLoc(line, col) == [line |-> line, col |-> col]

\* variant: after the loop only State::Default is provided for
lex_finish_default_only(state, toks, errors, sloc, range_len) ==
    IF state.s # "Default" THEN [ok |-> "Panic"]
    ELSE IF errors # <<>> THEN [ok |-> "Err", errors |-> errors]
    ELSE [ok |-> "Ok", tokens |-> toks]

\* variant: the open string is reported where the input ends
lex_finish_at_end(state, toks, errors, sloc, range_len) ==
    LET errs == IF state.s = "String"
                THEN Append(errors, at(expected_delimiter("\""),
                                       SrcRange(sloc.line, sloc.col + range_len, 0)))
                ELSE errors
    IN  IF state.s \notin {"Default", "String"} THEN [ok |-> "Panic"]
        ELSE IF errs # <<>> THEN [ok |-> "Err", errors |-> errs]
        ELSE [ok |-> "Ok", tokens |-> toks]

\* what lex does after its loop
lex_finish(state, toks, errors, sloc, range_len) ==
    LET errs == IF state.s = "String"
                THEN Append(errors, at(expected_delimiter("\""),
                                       SrcRange(sloc.line, sloc.col, range_len)))
                ELSE errors
    IN  IF state.s \notin {"Default", "String"} THEN [ok |-> "Panic"]
        ELSE IF errs # <<>> THEN [ok |-> "Err", errors |-> errs]
        ELSE [ok |-> "Ok", tokens |-> toks]

\* the loop of lex; i is the index of the character chars.next() would give
RECURSIVE lex_loop(_, _, _, _, _, _, _, _)
lex_loop(code, i, state, toks, errors, sloc, cloc, range_len) ==
    LET c == IF i <= Len(code) THEN code[i] ELSE NUL
        sloc1 == IF state.s = "Default" THEN cloc ELSE sloc
        len1 == IF state.s = "Default" THEN 0 ELSE range_len
        t == lex_match(state, c, SrcRange(sloc1.line, sloc1.col, len1))
    IN  IF t.brk THEN lex_finish(state, toks, errors, sloc1, len1)
        ELSE IF t.incr
        THEN lex_loop(code, i + 1, t.state, toks \o t.toks, errors \o t.errs, sloc1,
                      IF c = "\n" THEN SrcLoc(cloc.line + 1, 1)
                      ELSE SrcLoc(cloc.line, cloc.col + 1),
                      len1 + 1)
        ELSE lex_loop(code, i, t.state, toks \o t.toks, errors \o t.errs, sloc1,
                      cloc, len1)

lex(code) == lex_loop(code, 1, StDefault, <<>>, <<>>, SrcLoc(1, 1), SrcLoc(1, 1), 0)

\* ------------------------------------------------------------------------
\* lex applied to source texts (SpecLex).  A text is pre, then (for the
\* string texts) an opening double quote, then name, then k quote marks,
\* then post.
\* ------------------------------------------------------------------------

\* the most quote marks after a name, and the longest free text
MaxQuotes == 2
MaxCode == 3

Quotes(k) == [i \in 1..k |-> "'"]

LexJob(family, pre, name, k, post) ==
    [ok |-> "Lex", family |-> family, pre |-> pre, name |-> name, k |-> k,
     post |-> post]

Code(j) ==
    j.pre \o (IF j.family = "string" THEN <<"\"">> ELSE <<>>)
          \o j.name \o Quotes(j.k) \o j.post

IdentNames ==
    {<<"f">>, <<"f", "o">>, <<"_", "f">>, <<"f", "1">>, <<"f", "_">>,
     <<"+">>, <<"+", "-">>, <<"=", "<">>, <<"(">>, <<";">>, <<"'">>}

IdentJobs ==
    {LexJob("ident", pre, name, k, post) :
        pre \in {<<>>, <<" ">>, <<"|">>, <<"\n">>, <<"$">>},
        name \in IdentNames,
        k \in 0..MaxQuotes,
        post \in {<<>>, <<" ">>, <<"f">>, <<"1">>, <<"+">>, <<"(">>, <<"|">>,
                  <<"_", "x">>}}

AnyChars == {"(", "]", ",", "'", "|", "+", "f", " ", "$"}

AnyJobs == {LexJob("any", <<>>, code, 0, <<>>) : code \in SeqsUpTo(AnyChars, MaxCode)}

StringJobs ==
    {LexJob("string", pre, body, 0, <<>>) :
        pre \in {<<>>, <<"f", " ">>, <<"\n">>, <<"|">>, <<"f", "\n", " ">>},
        body \in SeqsUpTo({"a", " ", "\\", "\n", "|"}, MaxCode)}

\* a string literal with backslashes in it, between its two quotes
EscapeJobs ==
    {LexJob("escape", <<"\"">>, body, 0, <<"\"">>) :
        body \in SeqsUpTo({"a", "n", "\\", "\""}, MaxCode)}

InitLex ==
    /\ tokens = <<>>
    /\ parsed = NotYet
    /\ NEXT_UNIVERSE = 0
    /\ stdin = <<>>
    /\ stdout = <<>>
    /\ effects = <<>>
    /\ job \in IdentJobs \cup AnyJobs \cup StringJobs \cup EscapeJobs
    /\ result = NotYet

\* lex applied to the text of the job
Lex ==
    /\ result = NotYet
    /\ job.ok = "Lex"
    /\ result' = lex(Code(job))
    /\ UNCHANGED <<parseVars, ioVars, job>>

NextLex == Lex

SpecLex == InitLex /\ [][NextLex]_vars

\* lex never reaches the panic!() after its loop on these texts
LexNeverPanics == result.ok # "Panic"

\* where the name of an ident text starts, and how many tokens are before it
NameLoc(pre) ==
    IF pre = <<"\n">> THEN SrcLoc(2, 1) ELSE SrcLoc(1, Len(pre) + 1)

TokensBefore(pre) == IF pre = <<"|">> THEN 1 ELSE 0

\* post goes on with the name when no quote mark separates them
Continues(name, c) ==
    IF is_singular(name[1]) THEN FALSE
    ELSE IF name[1] \in AsciiPunctuation \ {"_"}
    THEN c \in AsciiPunctuation /\ ~is_singular(c)
    ELSE is_alphanumeric(c) \/ c = "_"

\* the job is a name that is not introduced by `$`, followed by exactly k
\* quote marks
NameWithQuotes ==
    /\ job.ok = "Lex"
    /\ job.family = "ident"
    /\ job.pre # <<"$">>
    /\ result # NotYet
    /\ job.k > 0 \/ job.post = <<>> \/ ~Continues(job.name, job.post[1])

\* C15: an alphanumeric or symbolic identifier followed by k >= 0 quote marks
\* lexes to one Ident token with that name and arity k, whose range starts at
\* the first character of the name and is (name length + k) long; whatever
\* follows the quote marks starts a token of its own right after them.
C15_IdentArityFromQuotes ==
    NameWithQuotes =>
        LET n == TokensBefore(job.pre) + 1
            loc == NameLoc(job.pre)
            len == Len(job.name) + job.k
        IN  /\ result.ok = "Ok"
            /\ Len(result.tokens) >= n
            /\ result.tokens[n] =
                   Token(Ident(job.name, FALSE, job.k),
                         SrcRange(loc.line, loc.col, len))
            /\ (job.post # <<>> /\ job.post[1] # " ") =>
                   /\ Len(result.tokens) > n
                   /\ result.tokens[n + 1].range.line = loc.line
                   /\ result.tokens[n + 1].range.col = loc.col + len
            /\ (job.post = <<>> \/ job.post[1] = " ") => Len(result.tokens) = n

\* a name with two quote marks and an identifier character right after them
C15_Witness ==
    /\ NameWithQuotes
    /\ job.k = 2
    /\ job.name = <<"f", "o">>
    /\ job.post = <<"f">>
    /\ Len(result.tokens) = 2
    /\ result.tokens[1].lex = Ident(<<"f", "o">>, FALSE, 2)
    /\ result.tokens[2].lex = Ident(<<"f">>, FALSE, 0)

\* the number of quote marks of code from position p on
RECURSIVE QuotesFrom(_, _)
QuotesFrom(code, p) ==
    IF p <= Len(code) /\ code[p] = "'" THEN 1 + QuotesFrom(code, p + 1) ELSE 0

\* a quote mark that is not a trailing quote mark of what stands before it
LeadingQuote(code, p) ==
    /\ code[p] = "'"
    /\ p = 1 \/ code[p - 1] \in Whitespace \cup {"|"}

\* the job is a one-line text without string literals that lex accepted
LexedFreeText ==
    /\ job.ok = "Lex"
    /\ job.family = "any"
    /\ result # NotYet
    /\ result.ok = "Ok"

\* C16: outside string literals, each of ( ) [ ] { } , ; and each quote mark
\* that starts a token forms an Ident token named by that one character, not
\* scalar, its arity and the rest of its range being the quote marks right
\* after it, whatever punctuation stands next to it; every `|` gives a Pipe
\* token of range length 1 at its column and is part of no Ident.
C16_SingularCharsStandAlone ==
    LexedFreeText =>
        LET code == Code(job)
            toks == result.tokens
        IN  /\ \A p \in 1..Len(code) :
                   (\/ code[p] \in {"(", ")", "[", "]", "{", "}", ",", ";"}
                    \/ LeadingQuote(code, p)) =>
                       \E i \in 1..Len(toks) :
                           toks[i] =
                               Token(Ident(<<code[p]>>, FALSE, QuotesFrom(code, p + 1)),
                                     SrcRange(1, p, 1 + QuotesFrom(code, p + 1)))
            /\ \A p \in 1..Len(code) :
                   code[p] = "|" =>
                       \E i \in 1..Len(toks) :
                           toks[i] = Token(Kw("Pipe"), SrcRange(1, p, 1))
            /\ \A i \in 1..Len(toks) :
                   /\ toks[i].lex = Kw("Pipe") =>
                          code[toks[i].range.col] = "|" /\ toks[i].range.len = 1
                   /\ toks[i].lex.k = "Ident" =>
                          \A n \in 1..Len(toks[i].lex.name) : toks[i].lex.name[n] # "|"

\* `+,|`: the symbol, the comma and the pipe stand next to each other and stay
\* apart
C16_Witness ==
    /\ LexedFreeText
    /\ Code(job) = <<"+", ",", "|">>
    /\ result.tokens =
           <<Token(Ident(<<"+">>, FALSE, 0), SrcRange(1, 1, 1)),
             Token(Ident(<<",">>, FALSE, 0), SrcRange(1, 2, 1)),
             Token(Kw("Pipe"), SrcRange(1, 3, 1))>>

\* the job is `$` right before a name, and lex has run
ScalarName ==
    /\ job.ok = "Lex"
    /\ job.family = "ident"
    /\ job.pre = <<"$">>
    /\ result # NotYet

\* the tokens of the same text without the `$`
PlainTokens == lex(job.name \o Quotes(job.k) \o job.post).tokens

\* C17: `$` right before an identifier lex accepts on its own (alphanumeric,
\* also with a leading `_`; symbolic; one singular punctuation character)
\* gives exactly one Ident token for it, scalar, with the name and the arity
\* the identifier has without the `$`; the rest of the text lexes as before.
C17_ScalarKeepsNameAndArity ==
    ScalarName =>
        /\ result.ok = "Ok"
        /\ Len(result.tokens) = Len(PlainTokens)
        /\ result.tokens[1].lex =
               Ident(PlainTokens[1].lex.name, TRUE, PlainTokens[1].lex.arity)
        /\ \A i \in 2..Len(PlainTokens) : result.tokens[i].lex = PlainTokens[i].lex

\* the names C17 holds for: those that start with a letter or with a
\* punctuation character that is neither `_` nor singular
C17_LetterOrSymbolFirst ==
    (ScalarName /\ job.name[1] # "_" /\ ~is_singular(job.name[1])) =>
        /\ result.ok = "Ok"
        /\ Len(result.tokens) = Len(PlainTokens)
        /\ result.tokens[1].lex =
               Ident(PlainTokens[1].lex.name, TRUE, PlainTokens[1].lex.arity)

\* `$_f` lexes to a scalar `_` and a separate, non-scalar `f`
C17_UnderscoreSplits ==
    /\ ScalarName
    /\ Code(job) = <<"$", "_", "f">>
    /\ result.ok = "Ok"
    /\ result.tokens =
           <<Token(Ident(<<"_">>, TRUE, 0), SrcRange(1, 1, 2)),
             Token(Ident(<<"f">>, FALSE, 0), SrcRange(1, 3, 1))>>

\* the job is a text whose last double quote opens a string, and lex has run
OpenString ==
    /\ job.ok = "Lex"
    /\ job.family = "string"
    /\ result # NotYet

\* where the opening quote of a string text stands
RECURSIVE LocAfter(_, _, _)
LocAfter(text, i, loc) ==
    IF i > Len(text) THEN loc
    ELSE LocAfter(text, i + 1,
                  IF text[i] = "\n" THEN SrcLoc(loc.line + 1, 1)
                  ELSE SrcLoc(loc.line, loc.col + 1))

QuoteLoc(pre) == LocAfter(pre, 1, SrcLoc(1, 1))

\* C18: when the input ends inside a string literal, lex returns Err, without
\* tokens, and the errors hold ExpectedDelimiter('"') with a range that starts
\* at the opening quote and is as long as the text from that quote to the end.
C18_OpenStringExpectsDelimiter ==
    OpenString =>
        /\ result.ok = "Err"
        /\ "tokens" \notin DOMAIN result
        /\ \E i \in 1..Len(result.errors) :
               result.errors[i] =
                   at(expected_delimiter("\""),
                      SrcRange(QuoteLoc(job.pre).line, QuoteLoc(job.pre).col,
                               1 + Len(job.name)))

\* an open string on the second line, three characters after its quote, one
\* of them a line break
C18_Witness ==
    /\ OpenString
    /\ job.pre = <<"f", "\n", " ">>
    /\ job.name = <<"a", "\n", "|">>
    /\ result.errors =
           <<at(expected_delimiter("\""), SrcRange(2, 2, 4))>>

\* C19: every error lex or parse_program returns has a source range attached,
\* also the errors raised where the token stream ends early.
C19_ParseErrorsHaveRange ==
    parsed.ok = "Err" => parsed.err.range # None

\* the lexer's half of C19: every error lex returns has a range
C19_LexErrorsHaveRange ==
    (job.ok = "Lex" /\ result # NotYet /\ result.ok = "Err") =>
        \A i \in 1..Len(result.errors) : result.errors[i].range # None

\* the one token `def`: the stream ends where the name is due and the error
\* parse_program returns has no range
C19_EofErrorWithoutRange ==
    /\ Len(tokens) = 1
    /\ tokens[1].lex = Kw("Def")
    /\ parsed.ok = "Err"
    /\ parsed.err = unexpected_eof
    /\ parsed.err.range = None

\* ------------------------------------------------------------------------
\* gen_global_arities applied to token streams (SpecArity).  A stream is up
\* to MaxDefs pieces: a definition with its body, or a broken piece.
\* ------------------------------------------------------------------------

MaxDefs == 2

DefBodies ==
    {<<>>,
     <<One>>,
     <<fN(2), One>>,
     <<Kw("Pipe"), gN(1), Kw("Pipe")>>,
     <<Kw("Pipe"), fN(2), Kw("Pipe"), Kw("Pipe"), gN(1), Kw("Pipe"), One>>}

Pieces ==
    {<<Kw("Def"), ident>> \o body :
        ident \in {fN(0), fN(2), gN(1), Ident("g", TRUE, 1)}, body \in DefBodies}
    \cup {<<Kw("Def")>>, <<Kw("Def"), Kw("Def")>>, <<Kw("Def"), One>>, <<gN(1)>>}

RECURSIVE Flatten(_)
Flatten(ss) == IF ss = <<>> THEN <<>> ELSE Head(ss) \o Flatten(Tail(ss))

InitArity ==
    /\ tokens \in {WithRanges(Flatten(ps)) : ps \in SeqsUpTo(Pieces, MaxDefs)}
    /\ parsed = NotYet
    /\ NEXT_UNIVERSE = 0
    /\ stdin = <<>>
    /\ stdout = <<>>
    /\ effects = <<>>
    /\ job = [ok |-> "Arity"]
    /\ result = NotYet

\* gen_global_arities applied to the token stream
GenGlobalArities ==
    /\ result = NotYet
    /\ job.ok = "Arity"
    /\ result' = gen_global_arities(tokens)
    /\ UNCHANGED <<parseVars, ioVars, job>>

NextArity == GenGlobalArities

SpecArity == InitArity /\ [][NextArity]_vars

\* the positions of the `def` tokens
DefPositions == {p \in 1..Len(tokens) : tokens[p].lex.k = "Def"}

\* C20: gen_global_arities returns one (name, arity) entry per `def` token, in
\* source order, the arity being the number of quote marks of the identifier
\* after the `def`, whatever the bodies hold.
C20_OneEntryPerDef ==
    (job.ok = "Arity" /\ result # NotYet /\ result.ok = "Ok") =>
        /\ Len(result.arities) = Cardinality(DefPositions)
        /\ \A p \in DefPositions :
               /\ p < Len(tokens)
               /\ tokens[p + 1].lex.k = "Ident"
               /\ result.arities[Cardinality({q \in DefPositions : q <= p})] =
                      <<tokens[p + 1].lex.name, tokens[p + 1].lex.arity>>

\* gen_global_arities fails exactly when some `def` is not followed by an
\* identifier
C20_ErrIffDefWithoutName ==
    (job.ok = "Arity" /\ result # NotYet) =>
        (result.ok = "Err" <=>
            \E p \in DefPositions :
                p = Len(tokens) \/ tokens[p + 1].lex.k # "Ident")

\* two definitions, the first with marked identifiers between pipes
C20_Witness ==
    /\ job.ok = "Arity"
    /\ result # NotYet
    /\ result.ok = "Ok"
    /\ Len(tokens) = 7
    /\ tokens[4].lex = gN(1)
    /\ result.arities = <<<<"f", 2>>, <<"g", 1>>>>

\* ------------------------------------------------------------------------
\* parse_program applied to programs built around one use site (SpecScope):
\* global definitions, then `def main`, a binder and a use.
\* ------------------------------------------------------------------------

\* the most quote marks on a name and the most operands after a use
MaxMarks == 2

Two == NumLx(<<"2">>)

\* a user name and the name of a built-in of arity 1
UseNames == {"x", "__wrap"}

Ones(k) == [i \in 1..k |-> One]

GlobalDefs ==
    {<<>>}
    \cup {<<Kw("Def"), Ident(n, FALSE, a), One>> :
            n \in UseNames, a \in 0..MaxMarks}
    \cup {<<Kw("Def"), Ident("x", FALSE, a), One, Kw("Def"), Ident("x", FALSE, b), Two>> :
            a \in 0..MaxMarks, b \in 0..1}

Binders ==
    {<<>>}
    \cup UNION {{<<Kw("Let"), Ident(n, FALSE, a), One>>,
                 <<Ident(n, FALSE, a), Kw("Arrow")>>,
                 <<Kw("Pipe"), Ident(n, FALSE, a), Kw("Pipe"), Kw("Arrow")>>,
                 <<Kw("Let"), Kw("Pipe"), Ident(n, FALSE, a), Kw("Pipe"), One>>} :
                   n \in UseNames, a \in 0..MaxMarks}
    \cup UNION {{<<Kw("Pipe"), Ident(n, TRUE, 0), Kw("Pipe"), Kw("Arrow")>>,
                 <<Kw("Let"), Kw("Pipe"), Ident(n, TRUE, 0), Kw("Pipe"), One>>} :
                   n \in UseNames}

UseSites ==
    {<<Ident(n, FALSE, m)>> \o Ones(k) :
        n \in UseNames, m \in 0..1, k \in 0..MaxMarks}
    \cup {<<Ident(n, TRUE, 0)>> : n \in UseNames}
    \cup {<<Kw("Arrow")>>, <<One>>}

ScopePrograms ==
    {g \o <<Kw("Def"), Ident("main", FALSE, 0)>> \o b \o u :
        g \in GlobalDefs, b \in Binders, u \in UseSites}

InitScope ==
    /\ tokens \in {WithRanges(l) : l \in ScopePrograms}
    /\ parsed = NotYet
    /\ NEXT_UNIVERSE = 0
    /\ stdin = <<>>
    /\ stdout = <<>>
    /\ effects = <<>>
    /\ job = NotYet
    /\ result = NotYet

SpecScope == InitScope /\ [][NextParse]_vars

\* the uses parse_program resolved, when it returned a Program
Uses ==
    IF parsed.ok = "Ok" THEN {parsed.uses[i] : i \in 1..Len(parsed.uses)} ELSE {}

\* C21: a use site resolves to the innermost binding, locals before globals
\* before built-ins, and the production follows the binding found: a name
\* bound as a local or a global is parsed as a Call with the arity of that
\* binding also when a built-in has the same name, and a built-in production
\* is emitted only when no local or global of the name is in scope.
C21_BindingDecidesProduction ==
    \A u \in Uses :
        /\ (InScope(u) /\ ~u.scalar) =>
               u.node = "Call" /\ u.nargs = ResolvedArity(u)
        /\ u.node = "Builtin" => ~InScope(u)

\* the arity half of C21: the operands of a Call are as many as the
\* innermost binding says
C21_CallArityFromInnermost ==
    \A u \in Uses :
        (u.node = "Call" /\ ~u.scalar) => InScope(u) /\ u.nargs = ResolvedArity(u)

\* `def main let __wrap 1 __wrap 1`: the use of the local __wrap is parsed as
\* the built-in with one operand
C21_LocalParsedAsBuiltin ==
    /\ Len(tokens) = 7
    /\ tokens[3].lex.k = "Let"
    /\ tokens[4].lex = Ident("__wrap", FALSE, 0)
    /\ \E u \in Uses :
           /\ u.pos = 6
           /\ u.name = "__wrap"
           /\ u.locals = <<<<"__wrap", 0>>>>
           /\ u.node = "Builtin"
           /\ u.nargs = 1

\* where `def main` puts its name, and the parameter of a pipe-delimited
\* list right after it (of a closure, or of a let)
MainPos ==
    CHOOSE p \in 1..Len(tokens) : tokens[p].lex = Ident("main", FALSE, 0)

ParamPos ==
    IF tokens[MainPos + 1].lex.k = "Pipe" THEN MainPos + 2 ELSE MainPos + 3

HasPipeParam ==
    /\ parsed # NotYet
    /\ Len(tokens) >= MainPos + 3
    /\ \/ tokens[MainPos + 1].lex.k = "Pipe"
       \/ tokens[MainPos + 1].lex.k = "Let" /\ tokens[MainPos + 2].lex.k = "Pipe"

\* C22: a parameter of a pipe-delimited list, of a closure or of a let, that
\* is written with quote marks or with `$` makes the parse fail with
\* Expected(ArityIdent), so every destructured name is a local of arity 0.
C22_ParamsAreZeroArity ==
    HasPipeParam =>
        LET param == tokens[ParamPos] IN
        /\ (param.lex.arity > 0 \/ param.lex.scalar) =>
               parsed = PErr(at(expected("ArityIdent"), param.range))
        /\ \A u \in Uses : \A i \in 1..Len(u.locals) : u.locals[i][2] = 0

\* C22 amended: a parameter written with `$` makes the parse fail with
\* Expected(ArityIdent) at that parameter; a parameter written with m >= 0
\* quote marks is accepted and enters the local scope with arity m, so a use
\* of it in the body takes m operands.
C22_ParamsKeepTheirMarks ==
    HasPipeParam =>
        LET param == tokens[ParamPos] IN
        /\ param.lex.scalar =>
               parsed = PErr(at(expected("ArityIdent"), param.range))
        /\ ~param.lex.scalar =>
               /\ ~(parsed.ok = "Err" /\ parsed.err.kind = "Expected"
                      /\ parsed.err.what = "ArityIdent")
               /\ \A u \in Uses :
                      /\ u.locals = <<<<param.lex.name, param.lex.arity>>>>
                      /\ (u.name = param.lex.name /\ u.node = "Call" /\ ~u.scalar) =>
                             u.nargs = param.lex.arity

\* `def main |x''| -> x 1 1`: the parameter keeps its two marks and its use
\* takes two operands
C22_Witness ==
    /\ HasPipeParam
    /\ tokens[MainPos + 1].lex.k = "Pipe"
    /\ tokens[ParamPos].lex = Ident("x", FALSE, 2)
    /\ parsed.ok = "Ok"
    /\ \E u \in Uses : u.name = "x" /\ u.node = "Call" /\ u.nargs = 2

\* an identifier in defining position: after def, let or `|`, or before `->`
Defining(p) ==
    /\ tokens[p].lex.k = "Ident"
    /\ \/ p > 1 /\ tokens[p - 1].lex.k \in {"Def", "Let", "Pipe"}
       \/ p < Len(tokens) /\ tokens[p + 1].lex.k = "Arrow"

\* the use sites of the body of main
UsePositions ==
    {p \in (MainPos + 1)..Len(tokens) : tokens[p].lex.k = "Ident" /\ ~Defining(p)}

\* the name is bound where the body of main uses it: by a def anywhere, by
\* the binder before the use, or as a built-in
BoundAt(p) ==
    \/ is_builtin(tokens[p].lex.name)
    \/ \E q \in 1..Len(tokens) :
           /\ Defining(q)
           /\ tokens[q].lex.name = tokens[p].lex.name
           /\ tokens[q - 1].lex.k = "Def" \/ q < p

\* parse_program ran and got as far as the use site
ReachedUse ==
    /\ parsed # NotYet
    /\ UsePositions # {}
    /\ \A q \in 1..Len(tokens) : Defining(q) => ~tokens[q].lex.scalar

\* C23: at a use site, an identifier that resolves to no local, global or
\* built-in makes the parse fail with UnknownIdent(name); one that resolves
\* and is written with quote marks makes it fail with Expected(NoArityIdent);
\* both errors carry the range of the identifier and no Program is returned.
\* An identifier that resolves and has no quote marks raises neither.
C23_UseSiteErrors ==
    ReachedUse =>
        \A p \in UsePositions :
            LET t == tokens[p] IN
            /\ ~BoundAt(p) =>
                   parsed = PErr(at(unknown_ident(t.lex.name), t.range))
            /\ (BoundAt(p) /\ t.lex.arity > 0) =>
                   parsed = PErr(at(expected("NoArityIdent"), t.range))
            /\ (BoundAt(p) /\ t.lex.arity = 0) =>
                   ~(parsed.ok = "Err" /\ parsed.err.range = Some(t.range)
                       /\ parsed.err.kind \in {"UnknownIdent", "Expected"}
                       /\ parsed.err.what \in {t.lex.name, "NoArityIdent"})

\* `def x 1 def main x'`: a global used with a quote mark
C23_Witness ==
    /\ ReachedUse
    /\ Len(tokens) = 6
    /\ tokens[2].lex = Ident("x", FALSE, 0)
    /\ tokens[6].lex = Ident("x", FALSE, 1)
    /\ parsed = PErr(at(expected("NoArityIdent"), SrcRange(1, 6, 1)))

\* `def main x`: a name nothing binds
C23_UnknownWitness ==
    /\ ReachedUse
    /\ Len(tokens) = 3
    /\ tokens[3].lex = Ident("x", FALSE, 0)
    /\ parsed = PErr(at(unknown_ident("x"), SrcRange(1, 3, 1)))

\* ------------------------------------------------------------------------
\* eval applied to expressions with a Closure in operand position, with
\* arguments pending on the enclosing expression (SpecOperand)
\* ------------------------------------------------------------------------

\* the most arguments pending on the enclosing expression
MaxArgs == 2

\* a closure that answers true to whatever it is applied to
Yes == Closure(Single("_"), LitBool(TRUE))

\* the identity on the first of two successive arguments: x -> w -> x
KeepFirst == VFunc(EmptyMap, Single("x"), Closure(Single("w"), CallVar("x")))

\* the operand of a builtin, the condition of an If, the value of a Let, the
\* argument of a Call
InBuiltin == Builtin("Wrap", <<Probe>>)
InCondition == If(Yes, LitNum(1), LitNum(2))
InLetValue == Let(Single("y"), Probe, Closure(Single("z"), CallVar("y")))
InCallArgument == Call("keep", <<Probe>>)

OperandLocals ==
    {MapInsert(m, "keep", KeepFirst) :
        m \in {EmptyMap, <<<<"x", VNum(3)>>>>, <<<<"y", VNull>>, <<"x", VNum(3)>>>>}}

PendingArgs == SeqsUpTo({VNum(1), VNull, VBool(TRUE), VList(0, <<>>)}, MaxArgs)

OperandJobs ==
    {EvalJob(expr, EmptyMap, args, locals) :
        expr \in {InBuiltin, InCondition, InLetValue, InCallArgument},
        args \in PendingArgs,
        locals \in OperandLocals}

InitOperand ==
    /\ tokens = <<>>
    /\ parsed = NotYet
    /\ NEXT_UNIVERSE \in 0..MaxStart
    /\ stdin = <<>>
    /\ stdout = <<>>
    /\ effects = <<>>
    /\ job \in OperandJobs
    /\ result = NotYet

SpecOperand == InitOperand /\ [][EvalExpr]_vars

\* the Func a Probe evaluates to in the locals of the job
ProbeFunc == VFunc(job.locals, Single("_"), LitNull)

\* C24: a sub-expression in operand position is evaluated without the
\* arguments pending on the enclosing expression: a Closure there gives a Func
\* that captures the current locals, whatever is pending.  So __wrap of a
\* closure is a list holding that Func, an If whose condition is a closure
\* takes its second branch, and a closure given as Let value or as Call
\* argument is still a Func after one pending argument was consumed by the
\* enclosing expression.
C24_OperandsIgnorePendingArgs ==
    (job \in OperandJobs /\ result # NotYet) =>
        /\ job.expr = InBuiltin => result = [ok |-> "Ok", v |-> VList(0, <<ProbeFunc>>)]
        /\ job.expr = InCondition => result = [ok |-> "Ok", v |-> VNum(2)]
        /\ (job.expr \in {InLetValue, InCallArgument} /\ Len(job.args) = 1) =>
               result = [ok |-> "Ok", v |-> ProbeFunc]

\* with nothing pending the operands are evaluated as C24 says
C24_HoldsWithNothingPending ==
    (job \in OperandJobs /\ result # NotYet /\ job.args = <<>>) =>
        /\ job.expr = InBuiltin => result = [ok |-> "Ok", v |-> VList(0, <<ProbeFunc>>)]
        /\ job.expr = InCondition => result = [ok |-> "Ok", v |-> VNum(2)]
        /\ job.expr = InCallArgument =>
               result.ok = "Ok" /\ result.v.t = "Func"
               /\ MapGet(result.v.locals, "x") = Some(ProbeFunc)

\* __wrap of a closure with the argument 1 pending: the closure has consumed
\* the 1 and the list holds its result, null
C24_OperandConsumesPendingArg ==
    /\ job \in OperandJobs
    /\ job.expr = InBuiltin
    /\ job.args = <<VNum(1)>>
    /\ result = [ok |-> "Ok", v |-> VList(0, <<VNull>>)]

\* the text of a string literal read as backslash pairs: how the body ends
\* ("End": every quote and backslash of it is part of a pair; "Inner": a
\* quote outside a pair; "Dangling": its last backslash pairs with the
\* closing quote) and the characters contributed up to there
RECURSIVE PairedText(_, _, _)
PairedText(body, i, text) ==
    IF i > Len(body) THEN [how |-> "End", text |-> text]
    ELSE IF body[i] = "\\"
    THEN IF i = Len(body) THEN [how |-> "Dangling", text |-> text]
         ELSE PairedText(body, i + 2,
                         CASE body[i + 1] = "\\" -> Append(text, "\\")
                           [] body[i + 1] = "n" -> Append(text, "\n")
                           [] OTHER -> text)
    ELSE IF body[i] = "\"" THEN [how |-> "Inner", text |-> text]
    ELSE PairedText(body, i + 1, Append(text, body[i]))

EscapedString ==
    /\ job.ok = "Lex"
    /\ job.family = "escape"
    /\ result # NotYet

\* C25: in a string literal a backslash and the character c after it give
\* `\` for c = `\`, a line break for c = `n` and nothing for any other c,
\* the double quote included; the literal goes on after the pair and ends at
\* the next double quote that is not part of a pair.
C25_BackslashPairs ==
    EscapedString =>
        LET p == PairedText(job.name, 1, <<>>) IN
        /\ p.how = "End" =>
               result = [ok |-> "Ok",
                         tokens |-> <<Token(StrLx(p.text),
                                            SrcRange(1, 1, Len(job.name) + 1))>>]
        /\ p.how = "Dangling" => result.ok = "Err"

\* C25 without the double quote: a body that holds no quote lexes to the
\* text of its pairs
C25_PairsWithoutQuote ==
    (EscapedString /\ \A i \in 1..Len(job.name) : job.name[i] # "\"") =>
        LET p == PairedText(job.name, 1, <<>>) IN
        p.how = "End" =>
            result = [ok |-> "Ok",
                      tokens |-> <<Token(StrLx(p.text),
                                         SrcRange(1, 1, Len(job.name) + 1))>>]

\* `"a\"`: the quote after the backslash ends the literal
C25_EscapedQuoteCloses ==
    /\ EscapedString
    /\ job.name = <<"a", "\\">>
    /\ result = [ok |-> "Ok",
                 tokens |-> <<Token(StrLx(<<"a">>), SrcRange(1, 1, 3))>>]

\* the names with more than one def
Redefined == {n \in UseNames : Cardinality(DefsOf(n)) > 1}

\* the last def of a name: its position, the arity written there and its
\* body (the bodies of the definitions before main are single numbers)
LastDef(n) == SetMax(DefsOf(n))
LastArity(n) == tokens[LastDef(n) + 1].lex.arity
LastBody(n) == LitNum(DecimalValue(tokens[LastDef(n) + 2].lex.text))

\* main uses the redefined name directly, with k numbers after it
PlainUseOf(n) ==
    /\ MainPos + 1 \in UsePositions
    /\ tokens[MainPos + 1].lex = Ident(n, FALSE, 0)

\* C26: a global defined more than once raises no error and its last def
\* wins on both sides: every use of the name is parsed with the arity of the
\* last def, and Program.globals holds the body of the last def.
C26_LastDefinitionWins ==
    \A n \in Redefined :
        /\ parsed.ok = "Ok" =>
               /\ MapGet(parsed.globals, n) = Some(LastBody(n))
               /\ \A u \in Uses :
                      (u.name = n /\ u.node = "Call" /\ ~u.scalar
                         /\ Entries(u.locals, n) = {}) => u.nargs = LastArity(n)
        /\ (parsed # NotYet /\ PlainUseOf(n)) =>
               (parsed.ok = "Ok" <=> Len(tokens) = MainPos + 1 + LastArity(n))

\* `def x'' 1 def x' 2 def main x 1`: the use takes one operand and the
\* stored body is 2
C26_Witness ==
    /\ Redefined = {"x"}
    /\ tokens[2].lex.arity = 2
    /\ LastArity("x") = 1
    /\ PlainUseOf("x")
    /\ parsed.ok = "Ok"
    /\ MapGet(parsed.globals, "x") = Some(LitNum(2))
    /\ \E u \in Uses : u.name = "x" /\ u.nargs = 1

\* C27: parse_program returns Ok or Err on every token sequence lex can
\* return; it reaches no unimplemented!() arm and never panics, also when
\* `->` stands where an expression is expected.
C27_ParseNeverPanics == parsed.ok # "Panic"

\* `def main ->`: read_expr meets the arrow and panics
C27_ArrowPanics ==
    /\ Len(tokens) = 3
    /\ tokens[1].lex = Kw("Def")
    /\ tokens[2].lex = Ident("main", FALSE, 0)
    /\ tokens[3].lex = Kw("Arrow")
    /\ parsed = PPanic

\* the panic is the fall-through arm of read_expr: it is reached only when an
\* expression is due at a `->`
C27_OnlyArrowPanics ==
    parsed.ok = "Panic" => \E p \in 1..Len(tokens) : tokens[p].lex = Kw("Arrow")

\* ------------------------------------------------------------------------
\* parse_program, then run_prog on the Program it returned (SpecProgram)
\* ------------------------------------------------------------------------

\* run_prog applied to the Program parse_program returned
RunParsed ==
    /\ parsed.ok = "Ok"
    /\ result = NotYet
    /\ LET r == run_prog(parsed.globals, IoNow) IN
       /\ result' = RunOutcome(r, NEXT_UNIVERSE)
       /\ NEXT_UNIVERSE' = r.io.next
       /\ stdin' = r.io.stdin
       /\ stdout' = r.io.stdout
       /\ effects' = r.io.effects
    /\ UNCHANGED <<parseVars, job>>

NextProgram == ParseProgram \/ RunParsed

SpecProgram == InitScope /\ [][NextProgram]_vars

\* C28: parser and evaluator agree on names: in a Program parse_program
\* returned, every Call reached by the evaluation finds its name in the
\* runtime locals or in Program.globals, so "Could not find item" never
\* happens, also for scalar references to any name the parser accepts.
C28_NoMissingItem ==
    ~(result.ok = "Panic" /\ result.msg = "Could not find item")

\* a scalar reference to a name that only the built-ins bind
ScalarBuiltinUse ==
    \E u \in Uses :
        u.scalar /\ is_builtin(u.name) /\ ~InScope(u)

\* without such a reference every Call finds its item
C28_HoldsWithoutScalarBuiltin ==
    ~ScalarBuiltinUse => C28_NoMissingItem

\* main's body is the token Ident(__wrap, scalar): parsed to Call(__wrap, [])
\* and fatal when run
C28_ScalarBuiltinIsMissing ==
    /\ Len(tokens) = 3
    /\ tokens[3].lex = Ident("__wrap", TRUE, 0)
    /\ parsed.ok = "Ok"
    /\ MapGet(parsed.globals, "main") = Some(Call("__wrap", <<>>))
    /\ result.ok = "Panic"
    /\ result.msg = "Could not find item"

\* the tags of the effects that succeeded so far
ConsumedTags == {effects[i].tag : i \in 1..Len(effects)}

\* no tag was consumed twice: the tags of the successful effects grow
NoTagTwice ==
    \A i, j \in 1..Len(effects) : i < j => effects[i].tag < effects[j].tag

\* an effect attempted with a tag that is not above every consumed tag is
\* fatal and performs nothing
StaleIsFatal ==
    (job'.self.t = "Universe" /\ \E n \in ConsumedTags : job'.self.n <= n) =>
        /\ result'.ok = "Panic"
        /\ effects' = effects
        /\ stdin' = stdin
        /\ stdout' = stdout

\* C29: universe tokens are single-use.  Over any sequence of __input and
\* __print operations of a process, once an effect has succeeded with
\* Universe(n), every later effect attempted with Universe(n) or a smaller
\* tag is fatal, so no tag is consumed twice.
C29_UniverseIsSingleUse == [][StaleIsFatal]_vars /\ []NoTagTwice

\* two effects succeeded and the tag of the second one was presented again,
\* to __print
C29_Witness ==
    /\ result.ok = "Panic"
    /\ job.op = "print"
    /\ job.self = VUniverse(1)
    /\ ConsumedTags = {0, 1}

\* ------------------------------------------------------------------------
\* lex followed turn by turn of its loop (SpecLexRun).  The job holds the
\* locals of lex; idle counts the turns taken since a character was last
\* consumed.
\* ------------------------------------------------------------------------

LexRunChars == {"$", "(", "+", "_", "f", "1", "\"", " "}

LexRun(code, i, state, toks, errors, sloc, cloc, range_len, idle, done) ==
    [ok |-> "LexRun", code |-> code, i |-> i, state |-> state, toks |-> toks,
     errors |-> errors, sloc |-> sloc, cloc |-> cloc, range_len |-> range_len,
     idle |-> idle, done |-> done]

InitLexRun ==
    /\ tokens = <<>>
    /\ parsed = NotYet
    /\ NEXT_UNIVERSE = 0
    /\ stdin = <<>>
    /\ stdout = <<>>
    /\ effects = <<>>
    /\ \E code \in SeqsUpTo(LexRunChars, MaxCode) :
           job = LexRun(code, 1, StDefault, <<>>, <<>>, SrcLoc(1, 1), SrcLoc(1, 1),
                        0, 0, FALSE)
    /\ result = NotYet

\* one turn of the loop of lex that goes on to the next turn
LexTurn ==
    /\ job.ok = "LexRun"
    /\ ~job.done
    /\ LET c == IF job.i <= Len(job.code) THEN job.code[job.i] ELSE NUL
           sloc1 == IF job.state.s = "Default" THEN job.cloc ELSE job.sloc
           len1 == IF job.state.s = "Default" THEN 0 ELSE job.range_len
           t == lex_match(job.state, c, SrcRange(sloc1.line, sloc1.col, len1))
       IN  /\ ~t.brk
           /\ job' = IF t.incr
                     THEN LexRun(job.code, job.i + 1, t.state, job.toks \o t.toks,
                                 job.errors \o t.errs, sloc1,
                                 IF c = "\n" THEN SrcLoc(job.cloc.line + 1, 1)
                                 ELSE SrcLoc(job.cloc.line, job.cloc.col + 1),
                                 len1 + 1, 0, FALSE)
                     ELSE LexRun(job.code, job.i, t.state, job.toks \o t.toks,
                                 job.errors \o t.errs, sloc1, job.cloc, len1,
                                 job.idle + 1, FALSE)
    /\ UNCHANGED <<parseVars, ioVars, result>>

\* the turn that breaks out of the loop, and what lex does after it
LexExit ==
    /\ job.ok = "LexRun"
    /\ ~job.done
    /\ LET c == IF job.i <= Len(job.code) THEN job.code[job.i] ELSE NUL
           sloc1 == IF job.state.s = "Default" THEN job.cloc ELSE job.sloc
           len1 == IF job.state.s = "Default" THEN 0 ELSE job.range_len
           t == lex_match(job.state, c, SrcRange(sloc1.line, sloc1.col, len1))
       IN  /\ t.brk
           /\ result' = lex_finish(job.state, job.toks, job.errors, sloc1, len1)
           /\ job' = [job EXCEPT !.sloc = sloc1, !.range_len = len1, !.done = TRUE]
    /\ UNCHANGED <<parseVars, ioVars>>

NextLexRun == LexTurn \/ LexExit

\* lex is a sequential loop: while it has not returned, its next turn runs
SpecLexRun ==
    InitLexRun /\ [][NextLexRun]_vars /\ WF_vars(LexTurn) /\ WF_vars(LexExit)

LexReturned == job.done

\* the turns of the loop compute what lex computes
LexRunIsLex == LexReturned => result = lex(job.code)

\* when the loop exits the state is Default or String
ExitsInDefaultOrString == LexReturned => job.state.s \in {"Default", "String"}

\* C30: lex terminates on every finite input and never panics: it never takes
\* two consecutive turns without consuming a character, and when its loop
\* exits the state is Default or String, so the panic!() after the loop is
\* not reached.
C30_NoTwoIdleTurns ==
    /\ <>LexReturned
    /\ [](job.idle < 2)
    /\ []ExitsInDefaultOrString
    /\ [](result.ok # "Panic")

\* C30 amended: lex terminates on every finite input and never panics: it
\* never takes more than two consecutive turns without consuming a character,
\* and when its loop exits the state is Default or String.
C30_AtMostTwoIdleTurns ==
    /\ <>LexReturned
    /\ [](job.idle <= 2)
    /\ []ExitsInDefaultOrString
    /\ [](result.ok # "Panic")

\* `$(`: after the `$` the turn of State::Scalar and the turn of State::Sym
\* both leave the `(` where it is
C30_Witness ==
    /\ job.ok = "LexRun"
    /\ job.code = <<"$", "(">>
    /\ job.i = 2
    /\ job.idle = 2
    /\ job.state = StDefault

\* an input that ends right after `$` has returned, with an error and
\* without a panic
C30_EndsAfterDollar ==
    /\ job.ok = "LexRun"
    /\ job.code = <<"f", "$">>
    /\ LexReturned
    /\ result.ok = "Err"

=============================================================================
